---------------------------- MODULE Spec2Model ----------------------------
(***************************************************************************)
(* A model of the magnet-search crawler: the keyword filter                *)
(* (internal/crawler/filter.go), the content classifier and the ingest     *)
(* pipeline (package crawler: processMetadata, convertToTorrentMetadata,   *)
(* convertMetadataToTorrent, categorizeContent) and the store adapter      *)
(* (package database: InitDB, AddTorrent, IncrementTorrentHeat,            *)
(* InfoHashExists).                                                        *)
(*                                                                         *)
(* Go strings are TLA+ strings; Len, SubSeq and \o act on them as on       *)
(* sequences of characters.  The categories of the source are Chinese      *)
(* words; they are written here by their English gloss.                    *)
(*                                                                         *)
(* The specifications share the variables: SpecFilter drives the filter on *)
(* its own, SpecCat the classifier, SpecConv the conversion of metadata to *)
(* a record; Spec is the crawler process with its store, the API's         *)
(* AddTorrent calls and the keyword calls running beside it, and SpecStop  *)
(* is Spec under fair scheduling.  SpecDHT is the DHT engine (package dht: *)
(* New, Run, Stop, listen, GetPeers, with the NAT helper of hole/nat), and *)
(* SpecDHTFair is SpecDHT under fair scheduling.  The others each take one *)
(* part on its own: SpecNAT the NAT helper (hole/nat/nat.go), SpecEnc the  *)
(* bencode encoder of calculateInfoHash, SpecId the engine's id(target),   *)
(* SpecKb the Run loop's k-bucket tick, SpecRW the filter's RWMutex with   *)
(* goroutines reading and writing, SpecListen the reader's buffer and the  *)
(* packet queue, SpecFilterCalls the filter's six mutating methods, and    *)
(* SpecPeerStats the engine's peer statistics.                             *)
(***************************************************************************)
EXTENDS Integers, Sequences, FiniteSets, TLC

VARIABLES
    kf,          \* the KeywordFilter: [keywords, blacklist, categoryMap]
    kwOrder,     \* history: the keywords in order of insertion, removed ones left out
    lastMatch,   \* the last MatchContent call made by the filter's client: input and result
    catCalls,    \* the last calls of categorizeContent made by its client, newest first
    running,     \* Crawler.running
    stopPc,      \* where the caller of Crawler.Stop is: idle, wait, done
    store,       \* the torrents collection: its documents in insertion order
    uniqueIndex, \* whether the collection has the unique index on info_hash
    pc,          \* where the processMetadata goroutine is
    resp,        \* the Wire response it is processing, or processed last
    pm,          \* its locals for that response
    addPc,       \* where each caller of database.AddTorrent is
    addArg,      \* the torrent each caller passed to database.AddTorrent
    hist,        \* history: per info-hash, the responses completed and whether all of
                 \* them ended in a successful insert or increment with no API call
    lastOutcome, \* history: how the last completed response ended
    opsLog,      \* history: the calls processMetadata made for the response
    nDelivered,  \* the number of responses received
    nApiCalls,   \* the number of API calls made
    conv,        \* the client of convertMetadataToTorrent: its arguments and the result
    dht,         \* the DHT engine's fields
    task,        \* where Run, the UDP reader, the stats monitor and the caller of Stop are
    host,        \* the engine's process and what its host and network have done
    lastGetPeers, \* the last GetPeers call made by the engine's client: input and result
    nat,         \* a NATTraversal: [Mappings, upnpClient, pmpClient, useUPnP, localIP]
    router,      \* history: the mappings created on the gateway and the deletes issued
    natTask,     \* where the helper's user is, and whether the process is still there
    enc,         \* the encoder's client: the dictionary it encodes and what each call gave
    idc,         \* an engine's mode and node ID, and the calls of id made on it
    kb,          \* the Run loop's k-bucket check: table size, pending transactions, the last tick
    rw,          \* a filter shared by goroutines: the filter, its RWMutex, each goroutine's call
    lb,          \* listen's buffer, the packets queued on it, the reader, the last packet handled
    fc,          \* a filter under every mutating call: the filter, the last call, the filter before it
    ps           \* the engine's peer statistics, the workers delivering peers, the user's callback

filterVars == <<kf, kwOrder, lastMatch>>
catVars == <<catCalls>>
ingestVars == <<running, stopPc, store, uniqueIndex, pc, resp, pm, addPc, addArg, hist,
                lastOutcome, opsLog, nDelivered, nApiCalls>>
convVars == <<conv>>
dhtVars == <<dht, task, host, lastGetPeers>>
natVars == <<nat, router, natTask>>
encVars == <<enc>>
idVars == <<idc>>
kbVars == <<kb>>
rwVars == <<rw>>
lbVars == <<lb>>
fcVars == <<fc>>
psVars == <<ps>>
restVars == <<natVars, encVars, idVars, kbVars, rwVars, lbVars, fcVars, psVars>>
vars == <<filterVars, catVars, ingestVars, convVars, dhtVars, restVars>>

\* the variables each specification leaves alone
outsideFilter == <<catVars, ingestVars, convVars, dhtVars, restVars>>
outsideCat == <<filterVars, ingestVars, convVars, dhtVars, restVars>>
outsideIngest == <<catVars, convVars, dhtVars, restVars>>
outsideConv == <<filterVars, catVars, ingestVars, dhtVars, restVars>>
outsideDht == <<filterVars, catVars, ingestVars, convVars, restVars>>
firstVars == <<filterVars, catVars, ingestVars, convVars, dhtVars>>
outsideNat == <<firstVars, encVars, idVars, kbVars, rwVars, lbVars, fcVars, psVars>>
outsideEnc == <<firstVars, natVars, idVars, kbVars, rwVars, lbVars, fcVars, psVars>>
outsideId == <<firstVars, natVars, encVars, kbVars, rwVars, lbVars, fcVars, psVars>>
outsideKb == <<firstVars, natVars, encVars, idVars, rwVars, lbVars, fcVars, psVars>>
outsideRw == <<firstVars, natVars, encVars, idVars, kbVars, lbVars, fcVars, psVars>>
outsideLb == <<firstVars, natVars, encVars, idVars, kbVars, rwVars, fcVars, psVars>>
outsideFc == <<firstVars, natVars, encVars, idVars, kbVars, rwVars, lbVars, psVars>>
outsidePs == <<firstVars, natVars, encVars, idVars, kbVars, rwVars, lbVars, fcVars>>

None == [none |-> TRUE]

\* the classifier's client before it has an input
NoCalls == [name |-> "", fileCount |-> 0, size |-> [hi |-> 0, lo |-> 0], results |-> <<>>]

(***************************************************************************)
(* Strings: strings.ToLower, strings.Contains, strings.HasSuffix.          *)
(***************************************************************************)
UpperChars == "ABCDEFGHIJKLMNOPQRSTUVWXYZ"
LowerChars == "abcdefghijklmnopqrstuvwxyz"

CharAt(s, i) == SubSeq(s, i, i)

\* unicode.ToLower on one ASCII character
LowerChar(c) ==
    IF \E i \in 1..Len(UpperChars) : CharAt(UpperChars, i) = c
    THEN CharAt(LowerChars, CHOOSE i \in 1..Len(UpperChars) : CharAt(UpperChars, i) = c)
    ELSE c

RECURSIVE ToLowerFrom(_, _)
ToLowerFrom(s, i) ==
    IF i > Len(s) THEN "" ELSE LowerChar(CharAt(s, i)) \o ToLowerFrom(s, i + 1)

\* strings.ToLower
ToLower(s) == ToLowerFrom(s, 1)

\* strings.Contains(s, substr)
Contains(s, substr) ==
    \E i \in 0..(Len(s) - Len(substr)) : SubSeq(s, i + 1, i + Len(substr)) = substr

\* strings.HasSuffix(s, suffix)
HasSuffix(s, suffix) ==
    /\ Len(s) >= Len(suffix)
    /\ SubSeq(s, Len(s) - Len(suffix) + 1, Len(s)) = suffix

Range(seq) == {seq[i] : i \in 1..Len(seq)}

\* the first n elements of seq, all of them if it has fewer
Take(seq, n) == SubSeq(seq, 1, IF n < Len(seq) THEN n ELSE Len(seq))

(***************************************************************************)
(* KeywordFilter (filter.go).  Every exported method takes kf.mutex for    *)
(* its whole body, so each is one atomic step on the filter value.         *)
(***************************************************************************)
NewKeywordFilter ==
    [keywords |-> <<>>, blacklist |-> <<>>, categoryMap |-> <<>>]

RECURSIVE IndexFrom(_, _, _)
\* the index of the first element of list equal to x at or after i, 0 if none
\* (the `for i, k := range list { if k == x` loops)
IndexFrom(list, x, i) ==
    IF i > Len(list) THEN 0
    ELSE IF list[i] = x THEN i
    ELSE IndexFrom(list, x, i + 1)

containsKeyword(f, keyword) == IndexFrom(f.keywords, keyword, 1) # 0

containsBlacklistKeyword(f, keyword) == IndexFrom(f.blacklist, keyword, 1) # 0

\* m[k] = v on a Go map
MapPut(m, k, v) == [x \in (DOMAIN m) \cup {k} |-> IF x = k THEN v ELSE m[x]]

\* delete(m, k) on a Go map
MapDelete(m, k) == [x \in (DOMAIN m) \ {k} |-> m[x]]

\* append(list[:i], list[i+1:]...)
RemoveAt(list, i) == SubSeq(list, 1, i - 1) \o SubSeq(list, i + 1, Len(list))

\* a variant of AddKeyword that puts the new keyword in front of the list
AddKeyword_Prepend(f, keyword, category) ==
    LET k == ToLower(keyword) IN
    IF ~containsKeyword(f, k)
    THEN [f EXCEPT !.keywords = <<k>> \o @,
                   !.categoryMap = IF category # "" THEN MapPut(@, k, category) ELSE @]
    ELSE f

\* a variant of AddKeyword that maps a keyword it already has to the new category
AddKeyword_UpdateCategory(f, keyword, category) ==
    LET k == ToLower(keyword) IN
    IF ~containsKeyword(f, k)
    THEN [f EXCEPT !.keywords = Append(@, k),
                   !.categoryMap = IF category # "" THEN MapPut(@, k, category) ELSE @]
    ELSE [f EXCEPT !.categoryMap = IF category # "" THEN MapPut(@, k, category) ELSE @]

AddKeyword(f, keyword, category) ==
    LET k == ToLower(keyword) IN
    IF ~containsKeyword(f, k)
    THEN [f EXCEPT !.keywords = Append(@, k),
                   !.categoryMap = IF category # "" THEN MapPut(@, k, category) ELSE @]
    ELSE f

RECURSIVE AddKeywordsFrom(_, _, _)
\* `for _, keyword := range keywords`; loop is the loop's state: the filter
\* and the index of the next element
AddKeywordsFrom(loop, keywords, category) ==
    IF loop.i > Len(keywords) THEN loop.kf
    ELSE AddKeywordsFrom([kf |-> AddKeyword(loop.kf, keywords[loop.i], category),
                          i |-> loop.i + 1], keywords, category)

AddKeywords(f, keywords, category) == AddKeywordsFrom([kf |-> f, i |-> 1], keywords, category)

AddToBlacklist(f, keyword) ==
    LET k == ToLower(keyword) IN
    IF ~containsBlacklistKeyword(f, k)
    THEN [f EXCEPT !.blacklist = Append(@, k)]
    ELSE f

RECURSIVE AddBlacklistFrom(_, _)
AddBlacklistFrom(loop, keywords) ==
    IF loop.i > Len(keywords) THEN loop.kf
    ELSE AddBlacklistFrom([kf |-> AddToBlacklist(loop.kf, keywords[loop.i]), i |-> loop.i + 1],
                          keywords)

AddBlacklist(f, keywords) == AddBlacklistFrom([kf |-> f, i |-> 1], keywords)

\* a variant of RemoveKeyword that leaves the keyword's category in the map
RemoveKeyword_KeepCategory(f, keyword) ==
    LET k == ToLower(keyword)
        i == IndexFrom(f.keywords, k, 1)
    IN  IF i # 0
        THEN [f EXCEPT !.keywords = RemoveAt(@, i)]
        ELSE f

RemoveKeyword(f, keyword) ==
    LET k == ToLower(keyword)
        i == IndexFrom(f.keywords, k, 1)
    IN  IF i # 0
        THEN [f EXCEPT !.keywords = RemoveAt(@, i),
                       !.categoryMap = MapDelete(@, k)]
        ELSE f

RemoveFromBlacklist(f, keyword) ==
    LET k == ToLower(keyword)
        i == IndexFrom(f.blacklist, k, 1)
    IN  IF i # 0
        THEN [f EXCEPT !.blacklist = RemoveAt(@, i)]
        ELSE f

GetKeywords(f) == f.keywords

GetBlacklist(f) == f.blacklist

GetCategory(f, keyword) ==
    LET k == ToLower(keyword) IN
    IF k \in DOMAIN f.categoryMap THEN f.categoryMap[k] ELSE ""

RECURSIVE FirstContained(_, _, _)
\* the index of the first element of list, at or after i, that is a substring of
\* lowerContent; 0 if none (the two `for _, k := range` loops of MatchContent)
FirstContained(list, lowerContent, i) ==
    IF i > Len(list) THEN 0
    ELSE IF Contains(lowerContent, list[i]) THEN i
    ELSE FirstContained(list, lowerContent, i + 1)

NoMatch == [matched |-> FALSE, keyword |-> ""]

\* a variant of MatchContent that does not look at the blacklist
MatchContent_IgnoreBlacklist(f, content) ==
    IF content = "" THEN NoMatch
    ELSE LET i == FirstContained(f.keywords, ToLower(content), 1) IN
         IF i # 0 THEN [matched |-> TRUE, keyword |-> f.keywords[i]] ELSE NoMatch

\* a variant of MatchContent that looks at the keywords before the blacklist
MatchContent_KeywordsFirst(f, content) ==
    IF content = "" THEN NoMatch
    ELSE LET lowerContent == ToLower(content)
             i == FirstContained(f.keywords, lowerContent, 1) IN
         IF i # 0 THEN [matched |-> TRUE, keyword |-> f.keywords[i]]
         ELSE NoMatch

MatchContent(f, content) ==
    IF content = "" THEN NoMatch
    ELSE LET lowerContent == ToLower(content) IN
         IF FirstContained(f.blacklist, lowerContent, 1) # 0 THEN NoMatch
         ELSE LET i == FirstContained(f.keywords, lowerContent, 1) IN
              IF i # 0 THEN [matched |-> TRUE, keyword |-> f.keywords[i]]
              ELSE NoMatch


(***************************************************************************)
(* categorizeContent (package crawler).  An int64 byte count is kept as    *)
(* [hi, lo] with value hi * 2^30 + lo and 0 <= lo < 2^30, so that the      *)
(* thresholds of the source (1, 4 and 10 GiB) are exact.                   *)
(***************************************************************************)
CatMovie      == "Movie"
CatVideo      == "Video"
CatMusic      == "Music"
CatImage      == "Image"
CatDocument   == "Document"
CatArchive    == "Archive"
CatTV         == "TVSeries"
CatGame       == "Game"
CatSoftware   == "Software"
CatAnime      == "Anime"
CatEbook      == "Ebook"
CatCollection == "Collection"
CatOther      == "Other"
CatUnknown    == "Unknown"

Bytes(hi, lo) == [hi |-> hi, lo |-> lo]

\* n * 1024*1024*1024
GiB(n) == Bytes(n, 0)

\* a > b on int64 byte counts
SizeGt(a, b) == a.hi > b.hi \/ (a.hi = b.hi /\ a.lo > b.lo)

SizeGe(a, b) == a = b \/ SizeGt(a, b)

videoExtensions == <<".mp4", ".mkv", ".avi", ".mov", ".wmv", ".flv", ".ts", ".m4v", ".3gp">>
audioExtensions == <<".mp3", ".flac", ".aac", ".wav", ".wma", ".m4a", ".ogg">>
imageExtensions == <<".jpg", ".jpeg", ".png", ".gif", ".bmp", ".tiff">>
docExtensions == <<".pdf", ".doc", ".docx", ".xls", ".xlsx", ".ppt", ".pptx", ".txt", ".epub">>
archiveExtensions == <<".zip", ".rar", ".7z", ".tar", ".gz", ".iso">>

\* the map literal `keywords` of categorizeContent, in the order it is written
categoryKeywords == <<
    [category |-> CatMovie,    words |-> <<"movie", "film", "bluray", "bdrip", "dvdrip", "1080p", "720p", "4k">>],
    [category |-> CatTV,       words |-> <<"tv", "series", "season", "episode", "s01", "s02", "e01", "e02">>],
    [category |-> CatMusic,    words |-> <<"album", "discography", "soundtrack", "ost", "music">>],
    [category |-> CatGame,     words |-> <<"game", "xbox", "ps4", "ps5", "nintendo", "switch">>],
    [category |-> CatSoftware, words |-> <<"software", "app", "windows", "macos", "linux">>],
    [category |-> CatAnime,    words |-> <<"anime", "cartoon", "animation">>],
    [category |-> CatEbook,    words |-> <<"ebook", "books", "novel", "comics", "manga">>] >>

\* `for _, ext := range exts { if strings.HasSuffix(lowerName, ext)`
HasAnySuffix(lowerName, exts) ==
    \E i \in 1..Len(exts) : HasSuffix(lowerName, exts[i])

\* `for _, word := range words { if strings.Contains(lowerName, word)`
ContainsAnyWord(lowerName, words) ==
    \E i \in 1..Len(words) : Contains(lowerName, words[i])

\* `for category, words := range keywords` visits the seven entries in an order
\* the Go runtime draws anew for every range statement.  rangeStart is the entry
\* the iteration starts at; it goes on cyclically from there.  Whatever the
\* order, the loop returns a category one of whose words occurs in the name.
RangeStarts == 1..Len(categoryKeywords)

RangeIndex(rangeStart, n) == ((rangeStart - 1 + n - 1) % Len(categoryKeywords)) + 1

RECURSIVE KeywordCategoryFrom(_, _, _)
\* the category the range loop returns from its n-th visited entry on, "" if it
\* falls through
KeywordCategoryFrom(lowerName, rangeStart, n) ==
    IF n > Len(categoryKeywords) THEN ""
    ELSE LET e == categoryKeywords[RangeIndex(rangeStart, n)] IN
         IF ContainsAnyWord(lowerName, e.words) THEN e.category
         ELSE KeywordCategoryFrom(lowerName, rangeStart, n + 1)

\* a variant of categorizeContent whose size tests are >= where the source has >
categorizeContent_SizeAtLeast(name, fileCount, size, rangeStart) ==
    LET lowerName == ToLower(name) IN
    IF HasAnySuffix(lowerName, videoExtensions)
    THEN IF SizeGe(size, GiB(1)) THEN CatMovie ELSE CatVideo
    ELSE IF HasAnySuffix(lowerName, audioExtensions) THEN CatMusic
    ELSE IF HasAnySuffix(lowerName, imageExtensions) THEN CatImage
    ELSE IF HasAnySuffix(lowerName, docExtensions) THEN CatDocument
    ELSE IF HasAnySuffix(lowerName, archiveExtensions) THEN CatArchive
    ELSE IF KeywordCategoryFrom(lowerName, rangeStart, 1) # ""
         THEN KeywordCategoryFrom(lowerName, rangeStart, 1)
    ELSE IF fileCount > 50 /\ SizeGe(size, GiB(10)) THEN CatCollection
    ELSE IF SizeGe(size, GiB(4)) THEN CatMovie
    ELSE IF fileCount > 10 THEN CatOther
    ELSE CatUnknown

categorizeContent(name, fileCount, size, rangeStart) ==
    LET lowerName == ToLower(name) IN
    IF HasAnySuffix(lowerName, videoExtensions)
    THEN IF SizeGt(size, GiB(1)) THEN CatMovie ELSE CatVideo
    ELSE IF HasAnySuffix(lowerName, audioExtensions) THEN CatMusic
    ELSE IF HasAnySuffix(lowerName, imageExtensions) THEN CatImage
    ELSE IF HasAnySuffix(lowerName, docExtensions) THEN CatDocument
    ELSE IF HasAnySuffix(lowerName, archiveExtensions) THEN CatArchive
    ELSE IF KeywordCategoryFrom(lowerName, rangeStart, 1) # ""
         THEN KeywordCategoryFrom(lowerName, rangeStart, 1)
    ELSE IF fileCount > 50 /\ SizeGt(size, GiB(10)) THEN CatCollection
    ELSE IF SizeGt(size, GiB(4)) THEN CatMovie
    ELSE IF fileCount > 10 THEN CatOther
    ELSE CatUnknown


(***************************************************************************)
(* The store adapter (package database).  The collection is the sequence   *)
(* of its documents in insertion order.  A document keeps the fields of    *)
(* models.Torrent that the ingest pipeline decides: Title, InfoHash,       *)
(* MagnetLink, Size, FileCount, Category, UploadDate, Description, Source  *)
(* and Heat.                                                               *)
(***************************************************************************)
HexDigits == "0123456789abcdef"
UpperHexDigits == "0123456789ABCDEF"

RECURSIVE HexFrom(_, _, _)
\* two digits for every byte from the i-th on
HexFrom(bytes, digits, i) ==
    IF i > Len(bytes) THEN ""
    ELSE CharAt(digits, (bytes[i] \div 16) + 1) \o CharAt(digits, (bytes[i] % 16) + 1)
            \o HexFrom(bytes, digits, i + 1)

\* hex.EncodeToString(metadata.InfoHash)
EncodeToString(bytes) == HexFrom(bytes, HexDigits, 1)

\* what fmt.Sprintf("%X", infoHash) would give
SprintfHex_Upper(bytes) == HexFrom(bytes, UpperHexDigits, 1)

\* fmt.Sprintf("%x", infoHash)
SprintfHex(bytes) == HexFrom(bytes, HexDigits, 1)

\* the documents matching bson.M{"info_hash": infoHash}
Matching(docs, infoHash) == {i \in 1..Len(docs) : docs[i].InfoHash = infoHash}

\* db.Torrents.CountDocuments(ctx, bson.M{"info_hash": infoHash})
CountDocuments(docs, infoHash) == Cardinality(Matching(docs, infoHash))

\* the document FindOne and UpdateOne pick: the first one matching, 0 if none
FirstMatching(docs, infoHash) ==
    IF Matching(docs, infoHash) = {} THEN 0
    ELSE CHOOSE i \in Matching(docs, infoHash) : \A j \in Matching(docs, infoHash) : i <= j

\* a variant of the update that sets heat to 1 instead of adding 1 to it
UpdateOneIncHeat_Set(docs, infoHash) ==
    LET i == FirstMatching(docs, infoHash) IN
    IF i = 0 THEN docs ELSE [docs EXCEPT ![i].Heat = 1]

\* db.Torrents.UpdateOne(ctx, bson.M{"info_hash": infoHash}, {"$inc": {"heat": 1}})
UpdateOneIncHeat(docs, infoHash) ==
    LET i == FirstMatching(docs, infoHash) IN
    IF i = 0 THEN docs ELSE [docs EXCEPT ![i].Heat = @ + 1]

\* db.Torrents.InsertOne(ctx, torrent): with the unique index on info_hash in
\* place a second document with the same info_hash is refused
InsertOne(docs, unique, torrent) ==
    IF unique /\ Matching(docs, torrent.InfoHash) # {}
    THEN [err |-> TRUE, docs |-> docs]
    ELSE [err |-> FALSE, docs |-> Append(docs, torrent)]

\* InfoHashExists, when CountDocuments returns no error
InfoHashExists(docs, infoHash) == CountDocuments(docs, SprintfHex(infoHash)) > 0

\* IncrementTorrentHeat, when UpdateOne returns no error
IncrementTorrentHeat(docs, infoHash) == UpdateOneIncHeat(docs, SprintfHex(infoHash))

(***************************************************************************)
(* Decoded metadata (the interface{} values dht.Decode returns) and        *)
(* convertToTorrentMetadata, convertMetadataToTorrent.                     *)
(***************************************************************************)
Str(s)   == [t |-> "string", s |-> s]
I64(n)   == [t |-> "int64", n |-> n]
GoInt(n) == [t |-> "int", n |-> n]
List(l)  == [t |-> "list", l |-> l]
Dict(d)  == [t |-> "dict", d |-> d]

\* `x, ok := d[key].(T)`: ok
IsA(d, key, type) == key \in DOMAIN d /\ d[key].t = type

GiBBytes == 1024 * 1024 * 1024

\* a + b on int64 byte counts
AddBytes(a, b) ==
    IF a.lo + b.lo >= GiBBytes
    THEN Bytes(a.hi + b.hi + 1, a.lo + b.lo - GiBBytes)
    ELSE Bytes(a.hi + b.hi, a.lo + b.lo)

\* the length convertToTorrentMetadata reads from a dict, 0 when it has none
LengthOf(d) ==
    IF IsA(d, "length", "int64") \/ IsA(d, "length", "int") THEN d["length"].n
    ELSE Bytes(0, 0)

RECURSIVE PathFrom(_, _)
\* the string elements of a path list
PathFrom(path, i) ==
    IF i > Len(path) THEN <<>>
    ELSE (IF path[i].t = "string" THEN <<path[i].s>> ELSE <<>>) \o PathFrom(path, i + 1)

RECURSIVE FilesFrom(_, _)
\* `for _, file := range files`: one TorrentFile for every element that is a dict
FilesFrom(files, i) ==
    IF i > Len(files) THEN <<>>
    ELSE (IF files[i].t = "dict"
          THEN <<[Length |-> LengthOf(files[i].d),
                  Path |-> IF IsA(files[i].d, "path", "list")
                           THEN PathFrom(files[i].d["path"].l, 1) ELSE <<>>]>>
          ELSE <<>>) \o FilesFrom(files, i + 1)

RECURSIVE TotalLengthFrom(_, _)
TotalLengthFrom(tfs, i) ==
    IF i > Len(tfs) THEN Bytes(0, 0)
    ELSE AddBytes(tfs[i].Length, TotalLengthFrom(tfs, i + 1))

(***************************************************************************)
(* time.Time, as the seconds since January 1 of year 1 (an int64 in two    *)
(* limbs, like a size); the zero Time is second 0.                         *)
(***************************************************************************)
ZeroTime == Bytes(0, 0)

\* unixToInternal: the seconds from year 1 to 1970
unixToInternal == Bytes(57, 932312832)

\* time.Unix(sec, 0)
TimeUnix(sec) == AddBytes(sec, unixToInternal)

\* t.IsZero()
IsZero(t) == t = ZeroTime

(***************************************************************************)
(* url.QueryEscape, on printable ASCII.                                    *)
(***************************************************************************)
\* the printable ASCII characters in code order: 32 (space) to 95 (_), and
\* 97 (a) to 126 (~); the character 96 cannot be written in a string here
AsciiFrom32 == " !\"#$%&'()*+,-./0123456789:;<=>?@ABCDEFGHIJKLMNOPQRSTUVWXYZ[\\]^_"
AsciiFrom97 == "abcdefghijklmnopqrstuvwxyz{|}~"

\* the position of the character c in the string s, 0 if it is not in it
PosIn(s, c) ==
    IF \E i \in 1..Len(s) : CharAt(s, i) = c
    THEN CHOOSE i \in 1..Len(s) : CharAt(s, i) = c
    ELSE 0

\* the byte of a character
ByteOf(c) == IF PosIn(AsciiFrom32, c) # 0 THEN 31 + PosIn(AsciiFrom32, c)
             ELSE 96 + PosIn(AsciiFrom97, c)

\* the characters url.shouldEscape leaves alone in a query component
Unreserved == "ABCDEFGHIJKLMNOPQRSTUVWXYZabcdefghijklmnopqrstuvwxyz0123456789-_.~"

shouldEscape(c) == ~ \E i \in 1..Len(Unreserved) : CharAt(Unreserved, i) = c

\* one character of the escaped string: '+' for a space, %XX for an escaped byte
EscapeChar(c) ==
    IF c = " " THEN "+"
    ELSE IF shouldEscape(c)
         THEN "%" \o CharAt(UpperHexDigits, (ByteOf(c) \div 16) + 1)
                  \o CharAt(UpperHexDigits, (ByteOf(c) % 16) + 1)
         ELSE c

RECURSIVE QueryEscapeFrom(_, _)
QueryEscapeFrom(s, i) ==
    IF i > Len(s) THEN "" ELSE EscapeChar(CharAt(s, i)) \o QueryEscapeFrom(s, i + 1)

QueryEscape(s) == QueryEscapeFrom(s, 1)

ConvertError == [err |-> TRUE, meta |-> None]

\* a variant of convertToTorrentMetadata that names a nameless torrent "unknown"
convertToTorrentMetadata_DefaultName(infoHash, metadata) ==
    IF metadata.t # "dict" THEN ConvertError
    ELSE LET info == metadata.d IN
         [err |-> FALSE,
          meta |-> [InfoHash |-> infoHash,
                    Name |-> IF IsA(info, "name", "string") THEN info["name"].s ELSE "unknown",
                    Comment |-> "",
                    Creation |-> ZeroTime,
                    Announce |-> "",
                    Length |-> LengthOf(info),
                    Files |-> <<>>]]

convertToTorrentMetadata(infoHash, metadata) ==
    IF metadata.t # "dict" THEN ConvertError
    ELSE LET info == metadata.d IN
         IF ~IsA(info, "name", "string") THEN ConvertError
         ELSE LET single == IsA(info, "length", "int64") \/ IsA(info, "length", "int")
                  multi  == ~single /\ IsA(info, "files", "list")
                  files  == IF multi THEN FilesFrom(info["files"].l, 1) ELSE <<>>
              IN  [err |-> FALSE,
                   meta |-> [InfoHash |-> infoHash,
                             Name |-> info["name"].s,
                             Comment |-> IF IsA(info, "comment", "string")
                                         THEN info["comment"].s ELSE "",
                             Creation |-> IF IsA(info, "creation date", "int64")
                                          THEN TimeUnix(info["creation date"].n) ELSE ZeroTime,
                             Announce |-> IF IsA(info, "announce", "string")
                                          THEN info["announce"].s ELSE "",
                             Length |-> IF single THEN info["length"].n
                                        ELSE TotalLengthFrom(files, 1),
                             Files |-> files]]

\* a variant of the magnet link that puts the name before the tracker
magnetLinkOf_NameFirst(metadata) ==
    "magnet:?xt=urn:btih:" \o EncodeToString(metadata.InfoHash)
        \o (IF metadata.Name # "" THEN "&dn=" \o QueryEscape(metadata.Name) ELSE "")
        \o (IF metadata.Announce # "" THEN "&tr=" \o QueryEscape(metadata.Announce) ELSE "")

\* "magnet:?xt=urn:btih:" + hex, "&tr=" + announce, "&dn=" + name
magnetLinkOf(metadata) ==
    "magnet:?xt=urn:btih:" \o EncodeToString(metadata.InfoHash)
        \o (IF metadata.Announce # "" THEN "&tr=" \o QueryEscape(metadata.Announce) ELSE "")
        \o (IF metadata.Name # "" THEN "&dn=" \o QueryEscape(metadata.Name) ELSE "")

\* rangeStart is the order in which the classifier, if called, ranges over its map;
\* now is what time.Now() returns.  Seeds, Peers and Downloads, always 0, are left out
convertMetadataToTorrent(metadata, category, rangeStart, now) ==
    LET fileCount == IF Len(metadata.Files) = 0 THEN 1 ELSE Len(metadata.Files) IN
    [Title |-> metadata.Name,
     InfoHash |-> EncodeToString(metadata.InfoHash),
     MagnetLink |-> magnetLinkOf(metadata),
     Size |-> metadata.Length,
     FileCount |-> fileCount,
     Category |-> IF category = ""
                  THEN categorizeContent(metadata.Name, fileCount, metadata.Length, rangeStart)
                  ELSE category,
     UploadDate |-> IF IsZero(metadata.Creation) THEN now ELSE metadata.Creation,
     Description |-> metadata.Comment,
     Source |-> "DHT",
     Heat |-> 1]

(***************************************************************************)
(* NewCrawler: the filter the crawler starts with.                         *)
(***************************************************************************)
initDefaultKeywords(filter) ==
    LET f1 == AddKeywords(filter, <<"movie", "film", "bluray", "bdrip", "1080p", "720p", "4k", "uhd", "av", "jav", "sex">>, CatMovie)
        f2 == AddKeywords(f1, <<"tv series", "season", "episode", "s01", "s02", "e01", "e02", "tv">>, CatTV)
        f3 == AddKeywords(f2, <<"anime", "animation", "cartoon", "animated">>, CatAnime)
        f4 == AddKeywords(f3, <<"ost", "soundtrack", "album", "discography", "concert", "music", "mp3", "flac">>, CatMusic)
        f5 == AddKeywords(f4, <<"software", "application", "app", "windows", "macos", "linux", "android", "ios">>, CatSoftware)
        f6 == AddKeywords(f5, <<"game", "pc game", "xbox", "playstation", "ps4", "ps5", "nintendo", "switch">>, CatGame)
        f7 == AddKeywords(f6, <<"ebook", "pdf", "epub", "mobi", "azw3", "textbook", "book">>, CatEbook)
    IN  AddBlacklist(f7, <<"child", "teen", "underage">>)

(***************************************************************************)
(* The pipeline's environment: the Wire responses delivered, the records   *)
(* posted to the API, the keyword and blacklist calls.                     *)
(***************************************************************************)
MaxDeliveries == 2
MaxApiCalls == 1

H1 == <<10, 255>>
H2 == <<171, 1>>
Hashes == {H1, H2}

\* what dht.Decode(resp.MetadataInfo) returns: an error, or a bencode value
Decoded(value) == [err |-> FALSE, value |-> value]
Undecodable == [err |-> TRUE, value |-> None]

File(length, name) == Dict(("length" :> I64(length)) @@ ("path" :> List(<<Str(name)>>)))

\* a "creation date" of the metadata, in seconds since 1970
CreationSeconds == Bytes(1, 5)

\* dht.Decode yields the integers of a value as int (the sample spider reads
\* info["length"].(int)); the conversion also accepts int64
Responses == {
    [InfoHash |-> H1, MetadataInfo |-> Decoded(Dict(("name" :> Str("UHD")) @@ ("length" :> GoInt(Bytes(0, 5)))
        @@ ("creation date" :> GoInt(CreationSeconds))))],
    [InfoHash |-> H1, MetadataInfo |-> Decoded(Dict(("name" :> Str("xyz")) @@
        ("files" :> List(<<File(Bytes(0, GiBBytes - 1), "a"), File(Bytes(0, 1), "b"), Str("c")>>))))],
    [InfoHash |-> H2, MetadataInfo |-> Decoded(Dict(("name" :> Str("Teen UHD")) @@ ("length" :> GoInt(Bytes(0, 7)))))],
    [InfoHash |-> H2, MetadataInfo |-> Decoded(Dict("length" :> I64(Bytes(0, 5))))],
    [InfoHash |-> H2, MetadataInfo |-> Decoded(Dict(("name" :> I64(Bytes(0, 1))) @@ ("length" :> I64(Bytes(0, 5)))))],
    [InfoHash |-> H2, MetadataInfo |-> Decoded(Dict(("name" :> Str("")) @@ ("length" :> I64(Bytes(0, 5)))))],
    [InfoHash |-> H2, MetadataInfo |-> Decoded(List(<<Str("UHD")>>))],
    [InfoHash |-> H2, MetadataInfo |-> Undecodable] }

\* what time.Now() returns: to the conversion's client, and in the crawler process
NowInputs == {TimeUnix(Bytes(1, 626258176)), TimeUnix(Bytes(1, 626258177))}
ProcessNowInputs == {TimeUnix(Bytes(1, 626258176))}

ApiTorrents == {
    [Title |-> "posted", InfoHash |-> EncodeToString(H1),
     MagnetLink |-> "magnet:?xt=urn:btih:" \o EncodeToString(H1), Size |-> Bytes(0, 9),
     FileCount |-> 2, Category |-> CatOther, UploadDate |-> ZeroTime, Description |-> "",
     Source |-> "API", Heat |-> 7] }

KeywordCallInputs == {"UHD"}
CategoryCallInputs == {"", CatGame}

Callers == {"crawler", "api"}

\* processMetadata's locals before it has a response
NoLocals == [meta |-> None, exists |-> FALSE, matched |-> FALSE, keyword |-> "",
             mappedAtMatch |-> "", torrent |-> None]

NoHistory == [n |-> 0, clean |-> TRUE]

(***************************************************************************)
(* The DHT engine (package dht).  The routing table, the transaction       *)
(* manager and the packet handler are not part of the files at hand; they  *)
(* are modelled by what the specification says of them: neighbors(t, n)    *)
(* returns the n nodes with the smallest XOR distance to t, a query is one *)
(* send to its target, and a handled packet puts its sender in the table.  *)
(***************************************************************************)
\* config.K (8 in both default configurations) and config.PacketJobLimit
\* (1024), scaled; the packets the network delivers; the calls of join()
K == 2
PacketJobLimit == 2
MaxPackets == 3
MaxJoins == 2

ErrNil == "nil"
ErrNotReady == "dht is not ready"
ErrOnGetPeersResponseNotSet == "OnGetPeersResponse is not set"
ErrInvalidByte == "encoding/hex: invalid byte"

\* node ids and lookup targets are numbers below 4; the n-th packet the
\* socket delivers comes from node n
NodeIds == 1..MaxPackets

RECURSIVE Xor(_, _)
\* the XOR distance of two ids
Xor(a, b) ==
    IF a = 0 /\ b = 0 THEN 0
    ELSE (((a % 2) + (b % 2)) % 2) + 2 * Xor(a \div 2, b \div 2)

RECURSIVE GetNeighbors(_, _, _)
\* routingTable.GetNeighbors(id, size): the size nodes nearest to id, nearest first
GetNeighbors(nodes, id, size) ==
    IF size = 0 \/ nodes = {} THEN <<>>
    ELSE LET nearest == CHOOSE x \in nodes : \A y \in nodes : Xor(x, id) <= Xor(y, id)
         IN  <<nearest>> \o GetNeighbors(nodes \ {nearest}, id, size - 1)

\* what a caller passes to GetPeers: a string of len characters that stands
\* for the target id, and, when it has 40 characters, whether it is hex
InfoHashInputs == {
    [len |-> 20, hex |-> FALSE, target |-> 0],
    [len |-> 40, hex |-> TRUE, target |-> 3],
    [len |-> 40, hex |-> FALSE, target |-> 3] }

\* a variant of GetPeers that tests the callback before the readiness
GetPeers_CallbackFirst(d, infoHash) ==
    IF ~d.OnGetPeersResponse THEN [err |-> ErrOnGetPeersResponseNotSet, queries |-> <<>>]
    ELSE IF ~d.Ready THEN [err |-> ErrNotReady, queries |-> <<>>]
    ELSE IF infoHash.len = 40 /\ ~infoHash.hex THEN [err |-> ErrInvalidByte, queries |-> <<>>]
    ELSE [err |-> ErrNil,
          queries |-> GetNeighbors(d.routingTable, infoHash.target, Cardinality(d.routingTable))]

\* GetPeers: the error it returns and the nodes it sends a get_peers query to, in order
GetPeers(d, infoHash) ==
    IF ~d.Ready THEN [err |-> ErrNotReady, queries |-> <<>>]
    ELSE IF ~d.OnGetPeersResponse THEN [err |-> ErrOnGetPeersResponseNotSet, queries |-> <<>>]
    ELSE IF infoHash.len = 40 /\ ~infoHash.hex THEN [err |-> ErrInvalidByte, queries |-> <<>>]
    ELSE [err |-> ErrNil,
          queries |-> GetNeighbors(d.routingTable, infoHash.target, Cardinality(d.routingTable))]

\* what the host offers the NAT helper: a non-loopback IPv4 address, a UPnP
\* device that takes the mapping, a default gateway, a NAT-PMP answer from
\* it, a STUN answer
NatEnv(localIP, upnp, gateway, natpmp, stun) ==
    [localIP |-> localIP, upnp |-> upnp, gateway |-> gateway, natpmp |-> natpmp, stun |-> stun]

NatEnvs == {
    NatEnv(TRUE, TRUE, TRUE, TRUE, TRUE),
    NatEnv(FALSE, FALSE, FALSE, FALSE, TRUE),
    NatEnv(TRUE, FALSE, TRUE, TRUE, FALSE),
    NatEnv(TRUE, FALSE, TRUE, FALSE, FALSE),
    NatEnv(TRUE, FALSE, FALSE, FALSE, FALSE) }

\* nat.getDefaultGateway: log.Fatalf ends the process when no gateway is found
getDefaultGateway(env) == IF env.gateway THEN "ok" ELSE "fatal"

\* NATTraversal.setupNATPMP
setupNATPMP(env) ==
    IF getDefaultGateway(env) = "fatal" THEN "fatal"
    ELSE IF env.natpmp THEN "ok" ELSE "error"

\* NATTraversal.Setup: no local address is an error; UPnP first, then NAT-PMP
Setup(env) ==
    IF ~env.localIP THEN "error"
    ELSE IF env.upnp THEN "ok"
    ELSE setupNATPMP(env)

\* DHT.initNAT for a well-formed config.Address: whether the process is
\* still there afterwards, and whether STUN gave an external address
initNAT(env) ==
    [exited |-> Setup(env) = "fatal",
     externalIP |-> Setup(env) # "fatal" /\ env.stun]

\* New(config)
New(callback) ==
    [Ready |-> FALSE, OnGetPeersResponse |-> callback, closing |-> FALSE, conn |-> "nil",
     natTraversal |-> FALSE, externalIP |-> FALSE, packets |-> <<>>, routingTable |-> {}]

NoTasks == [run |-> "new", reader |-> "off", pkt |-> 0, stats |-> "off", stop |-> "idle"]
NoHost == [process |-> "alive", nat |-> None, nRead |-> 0, joins |-> 0]

(***************************************************************************)
(* The NAT helper (hole/nat/nat.go).  A mapping made on the gateway is     *)
(* known there by its method, protocol and port; router keeps which were   *)
(* made and for which a delete was sent.                                   *)
(***************************************************************************)
MaxMappings == 2

PortMappingInputs == {
    [Protocol |-> "UDP", ExtPort |-> 6881, IntPort |-> 6881],
    [Protocol |-> "TCP", ExtPort |-> 8080, IntPort |-> 80] }

\* NewNATTraversal(); a client that is nil is FALSE
NewNATTraversal ==
    [Mappings |-> <<>>, upnpClient |-> FALSE, pmpClient |-> FALSE, useUPnP |-> FALSE,
     localIP |-> FALSE]

NoRouter == [created |-> {}, deleted |-> {}]
NoNatTask == [pc |-> "new", process |-> "alive", setup |-> "none"]

\* what upnpClient.AddPortMapping and DeletePortMapping name a mapping by
UPnPKey(mapping) == <<"upnp", mapping.Protocol, mapping.ExtPort>>

\* what pmpClient.AddPortMapping names a mapping by
PMPKey(mapping) == <<"pmp", IF mapping.Protocol = "TCP" THEN "tcp" ELSE "udp", mapping.IntPort>>

\* the host as Setup finds it: a local address, a UPnP device, how many of
\* its AddPortMapping calls succeed before one fails, a default gateway, its
\* answer to GetExternalAddress, how many NAT-PMP mappings succeed
SetupEnvs ==
    [localIP : BOOLEAN, upnpFound : BOOLEAN, upnpOk : 0..MaxMappings, gateway : BOOLEAN,
     external : BOOLEAN, pmpOk : 0..MaxMappings]

\* applyUPnPMappings: the loop ends at the first AddPortMapping that fails
applyUPnPMappings(n, okCount) ==
    [err |-> okCount < Len(n.Mappings),
     created |-> {UPnPKey(n.Mappings[i]) : i \in 1..(IF okCount < Len(n.Mappings) THEN okCount ELSE Len(n.Mappings))},
     nilClient |-> ~n.upnpClient /\ n.Mappings # <<>>]

\* applyNATPMPMappings: the loop ends at the first AddPortMapping that
\* fails; with pmpClient nil the first call is made on a nil client
applyNATPMPMappings(n, okCount) ==
    IF ~n.pmpClient /\ n.Mappings # <<>>
    THEN [err |-> FALSE, created |-> {}, nilClient |-> TRUE]
    ELSE [err |-> okCount < Len(n.Mappings),
          created |-> {PMPKey(n.Mappings[i]) : i \in 1..(IF okCount < Len(n.Mappings) THEN okCount ELSE Len(n.Mappings))},
          nilClient |-> FALSE]

\* setupUPnP: no device is an error; else the first client is kept and tried
NATTraversal_setupUPnP(n, env) ==
    IF ~env.upnpFound THEN [nat |-> n, err |-> TRUE, created |-> {}]
    ELSE LET n1 == [n EXCEPT !.upnpClient = TRUE]
             a  == applyUPnPMappings(n1, env.upnpOk)
         IN  [nat |-> n1, err |-> a.err, created |-> a.created]

\* setupNATPMP: the gateway (or the end of the process), the client, the
\* external address, the mappings
NATTraversal_setupNATPMP(n, env) ==
    IF getDefaultGateway(env) = "fatal" THEN [nat |-> n, result |-> "fatal", created |-> {}]
    ELSE LET n1 == [n EXCEPT !.pmpClient = TRUE] IN
         IF ~env.external THEN [nat |-> n1, result |-> "error", created |-> {}]
         ELSE LET a == applyNATPMPMappings(n1, env.pmpOk) IN
              [nat |-> n1, result |-> IF a.err THEN "error" ELSE "ok", created |-> a.created]

\* Setup: the local address, then UPnP, then NAT-PMP
NATTraversal_Setup(n, env) ==
    IF ~env.localIP THEN [nat |-> n, result |-> "error", created |-> {}]
    ELSE LET u == NATTraversal_setupUPnP([n EXCEPT !.localIP = TRUE], env) IN
         IF ~u.err THEN [nat |-> [u.nat EXCEPT !.useUPnP = TRUE], result |-> "ok",
                         created |-> u.created]
         ELSE LET q == NATTraversal_setupNATPMP(u.nat, env) IN
              [nat |-> [q.nat EXCEPT !.useUPnP = FALSE], result |-> q.result,
               created |-> u.created \cup q.created]

\* Refresh: the mappings again, by UPnP if useUPnP is set and by NAT-PMP if not
NATTraversal_Refresh(n, okCount) ==
    IF n.useUPnP THEN applyUPnPMappings(n, okCount) ELSE applyNATPMPMappings(n, okCount)

\* Shutdown: the deletes it sends, by UPnP if useUPnP is set and there is a
\* UPnP client, else by NAT-PMP if there is a NAT-PMP client
NATTraversal_Shutdown(n) ==
    IF n.useUPnP /\ n.upnpClient
    THEN {UPnPKey(n.Mappings[i]) : i \in 1..Len(n.Mappings)}
    ELSE IF n.pmpClient
    THEN {PMPKey(n.Mappings[i]) : i \in 1..Len(n.Mappings)}
    ELSE {}

\* the clients of the filter, the classifier and the conversion before they act
NoConv == [metadata |-> None, category |-> "", now |-> None, torrent |-> None]
FilterIdle == kf = NewKeywordFilter /\ kwOrder = <<>> /\ lastMatch = None
CatIdle == catCalls = NoCalls
ConvIdle == conv = NoConv
DhtIdle == dht = New(TRUE) /\ task = NoTasks /\ host = NoHost /\ lastGetPeers = None

\* no crawler process, an empty collection
IngestIdle ==
    /\ running = FALSE
    /\ stopPc = "idle"
    /\ store = <<>>
    /\ uniqueIndex = TRUE
    /\ pc = "off"
    /\ resp = None
    /\ pm = NoLocals
    /\ addPc = [p \in Callers |-> "idle"]
    /\ addArg = [p \in Callers |-> None]
    /\ hist = [h \in Hashes |-> NoHistory]
    /\ lastOutcome = "none"
    /\ opsLog = <<>>
    /\ nDelivered = 0
    /\ nApiCalls = 0

\* the clients of the later specifications before they act
NatIdle == nat = NewNATTraversal /\ router = NoRouter /\ natTask = NoNatTask
NoEnc == [info |-> None, calls |-> <<>>]
EncIdle == enc = NoEnc
NoIdCalls == [Mode |-> 0, node |-> "", calls |-> <<>>]
IdIdle == idc = NoIdCalls
NoKb == [nodes |-> 0, transactions |-> 0, lastTick |-> None]
KbIdle == kb = NoKb
Readers == {"r1", "r2"}
IdleCall == [pc |-> "idle", op |-> "", arg |-> "", category |-> "", snap |-> None, result |-> None]
NoRw == [kf |-> NewKeywordFilter, mutex |-> [writer |-> "none", readers |-> {}],
         r |-> [g \in Readers |-> IdleCall], w |-> IdleCall]
RwIdle == rw = NoRw
BuffLen == 2
NoLb == [buff |-> [i \in 1..BuffLen |-> 0], packets |-> <<>>,
         reader |-> [pc |-> "read", datagram |-> <<>>, raddr |-> 0, i |-> 0],
         nRead |-> 0, handled |-> None]
LbIdle == lb = NoLb
NoFc == [kf |-> NewKeywordFilter, last |-> None, before |-> NewKeywordFilter]
FcIdle == fc = NoFc
Workers == {"w1", "w2"}
IdleWorker == [pc |-> "idle", n |-> 0, infoHash |-> "", peer |-> None]
NoPs == [totalPeersFound |-> 0, uniquePeersCount |-> 0, activeInfoHashes |-> <<>>,
         uniquePeerMap |-> {}, peerMutex |-> FALSE, worker |-> [w \in Workers |-> IdleWorker],
         delivered |-> <<>>, counted |-> {}, userCalls |-> <<>>]
PsIdle == ps = NoPs
FirstIdle == FilterIdle /\ CatIdle /\ IngestIdle /\ ConvIdle /\ DhtIdle
RestIdle == NatIdle /\ EncIdle /\ IdIdle /\ KbIdle /\ RwIdle /\ LbIdle /\ FcIdle /\ PsIdle
IdleOutsideNat == FirstIdle /\ EncIdle /\ IdIdle /\ KbIdle /\ RwIdle /\ LbIdle /\ FcIdle /\ PsIdle
IdleOutsideEnc == FirstIdle /\ NatIdle /\ IdIdle /\ KbIdle /\ RwIdle /\ LbIdle /\ FcIdle /\ PsIdle
IdleOutsideId == FirstIdle /\ NatIdle /\ EncIdle /\ KbIdle /\ RwIdle /\ LbIdle /\ FcIdle /\ PsIdle
IdleOutsideKb == FirstIdle /\ NatIdle /\ EncIdle /\ IdIdle /\ RwIdle /\ LbIdle /\ FcIdle /\ PsIdle
IdleOutsideRw == FirstIdle /\ NatIdle /\ EncIdle /\ IdIdle /\ KbIdle /\ LbIdle /\ FcIdle /\ PsIdle
IdleOutsideLb == FirstIdle /\ NatIdle /\ EncIdle /\ IdIdle /\ KbIdle /\ RwIdle /\ FcIdle /\ PsIdle
IdleOutsideFc == FirstIdle /\ NatIdle /\ EncIdle /\ IdIdle /\ KbIdle /\ RwIdle /\ LbIdle /\ PsIdle
IdleOutsidePs == FirstIdle /\ NatIdle /\ EncIdle /\ IdIdle /\ KbIdle /\ RwIdle /\ LbIdle /\ FcIdle

(***************************************************************************)
(* The filter on its own: a client that calls the filter's methods with    *)
(* every input of a bounded set, starting from NewKeywordFilter().         *)
(***************************************************************************)
MaxStrLen == 2
MaxListLen == 2

Alphabet == {"a", "b", "A"}

RECURSIVE StringsUpTo(_)
StringsUpTo(n) ==
    IF n = 0 THEN {""}
    ELSE LET shorter == StringsUpTo(n - 1) IN
         shorter \cup {s \o c : s \in shorter, c \in Alphabet}

\* the keywords and blacklist words the client passes in
WordInputs == {"", "A", "ab"}
\* the contents the client matches
ContentInputs == StringsUpTo(MaxStrLen)
\* the categories the client passes in
CategoryInputs == {"", "c1"}

\* history: the order of insertion, kept by the meaning of the two operations
OrderAfterAdd(order, keyword) ==
    LET lower == ToLower(keyword) IN
    IF \E i \in 1..Len(order) : order[i] = lower THEN order ELSE Append(order, lower)
OrderAfterRemove(order, keyword) ==
    LET lower == ToLower(keyword)
        keep(k) == k # lower
    IN  SelectSeq(order, keep)

FilterInit ==
    /\ kf = NewKeywordFilter
    /\ kwOrder = <<>>
    /\ lastMatch = None
    /\ CatIdle
    /\ IngestIdle
    /\ ConvIdle
    /\ DhtIdle
    /\ RestIdle

DoAddKeyword(keyword, category) ==
    /\ kf' = AddKeyword(kf, keyword, category)
    /\ kwOrder' = OrderAfterAdd(kwOrder, keyword)

DoRemoveKeyword(keyword) ==
    /\ kf' = RemoveKeyword(kf, keyword)
    /\ kwOrder' = OrderAfterRemove(kwOrder, keyword)

DoAddToBlacklist(keyword) ==
    /\ kf' = AddToBlacklist(kf, keyword)
    /\ UNCHANGED kwOrder

DoRemoveFromBlacklist(keyword) ==
    /\ kf' = RemoveFromBlacklist(kf, keyword)
    /\ UNCHANGED kwOrder

ClientAddKeyword ==
    /\ UNCHANGED outsideFilter
    /\ Len(kf.keywords) < MaxListLen
    /\ \E k \in WordInputs, c \in CategoryInputs : DoAddKeyword(k, c)
    /\ lastMatch' = None

ClientRemoveKeyword ==
    /\ UNCHANGED outsideFilter
    /\ \E k \in WordInputs : DoRemoveKeyword(k)
    /\ lastMatch' = None

ClientAddToBlacklist ==
    /\ UNCHANGED outsideFilter
    /\ Len(kf.blacklist) < MaxListLen
    /\ \E k \in WordInputs : DoAddToBlacklist(k)
    /\ lastMatch' = None

ClientRemoveFromBlacklist ==
    /\ UNCHANGED outsideFilter
    /\ \E k \in WordInputs : DoRemoveFromBlacklist(k)
    /\ lastMatch' = None

ClientMatchContent ==
    /\ \E s \in ContentInputs :
         lastMatch' = [content |-> s, result |-> MatchContent(kf, s)]
    /\ UNCHANGED <<kf, kwOrder>>
    /\ UNCHANGED outsideFilter

FilterNext ==
    \/ ClientAddKeyword
    \/ ClientRemoveKeyword
    \/ ClientAddToBlacklist
    \/ ClientRemoveFromBlacklist
    \/ ClientMatchContent

SpecFilter == FilterInit /\ [][FilterNext]_vars

(***************************************************************************)
(* The classifier on its own: a client that takes one input of a bounded   *)
(* set and calls categorizeContent on it up to MaxCalls times.             *)
(***************************************************************************)
MaxCalls == 2

CatNameInputs == {"x", "Movie Game", "clip.MKV", "UHD"}
CatFileCountInputs == {0, 10, 11, 50, 51}
CatSizeInputs == {Bytes(0, 5), GiB(1), Bytes(1, 1), GiB(4), Bytes(4, 1), GiB(10), Bytes(10, 1)}

CatInit ==
    /\ \E name \in CatNameInputs, fileCount \in CatFileCountInputs, size \in CatSizeInputs :
         catCalls = [name |-> name, fileCount |-> fileCount, size |-> size, results |-> <<>>]
    /\ FilterIdle
    /\ IngestIdle
    /\ ConvIdle
    /\ DhtIdle
    /\ RestIdle

ClientCategorize ==
    /\ Len(catCalls.results) < MaxCalls
    /\ \E rangeStart \in RangeStarts :
         catCalls' = [catCalls EXCEPT !.results =
             Append(@, categorizeContent(catCalls.name, catCalls.fileCount,
                                         catCalls.size, rangeStart))]
    /\ UNCHANGED outsideCat

CatNext == ClientCategorize

SpecCat == CatInit /\ [][CatNext]_vars

(***************************************************************************)
(* convertMetadataToTorrent on its own: a client that takes one            *)
(* TorrentMetadata and one category of bounded sets and calls it once.     *)
(***************************************************************************)
ConvNameInputs == {"", "UHD", "a b", "x&y=1.mkv", "A~b_c-d/e"}
ConvAnnounceInputs == {"", "udp://t.co:80/a", "http://x.y/an?k=v w"}
ConvHashInputs == {H1, H2, <<0, 16>>}
ConvCreationInputs == {ZeroTime, TimeUnix(Bytes(0, 0)), TimeUnix(Bytes(1, 5))}
ConvCategoryInputs == {"", CatMovie}

ConvInit ==
    /\ \E name \in ConvNameInputs, announce \in ConvAnnounceInputs, infoHash \in ConvHashInputs,
          creation \in ConvCreationInputs, category \in ConvCategoryInputs :
         conv = [NoConv EXCEPT
                    !.metadata = [InfoHash |-> infoHash, Name |-> name, Comment |-> "c",
                                  Creation |-> creation, Announce |-> announce,
                                  Length |-> Bytes(0, 5), Files |-> <<>>],
                    !.category = category]
    /\ FilterIdle
    /\ CatIdle
    /\ IngestIdle
    /\ DhtIdle
    /\ RestIdle

ClientConvert ==
    /\ conv.torrent = None
    /\ \E rangeStart \in RangeStarts, now \in NowInputs :
         conv' = [conv EXCEPT
                    !.now = now,
                    !.torrent = convertMetadataToTorrent(conv.metadata, conv.category,
                                                         rangeStart, now)]
    /\ UNCHANGED outsideConv

ConvNext == ClientConvert

SpecConv == ConvInit /\ [][ConvNext]_vars

(***************************************************************************)
(* The crawler process: Start, Stop, the processMetadata goroutine and the *)
(* AddTorrent calls in flight.  AddTorrent is three store round trips      *)
(* (FindOne, then UpdateOne or InsertOne) and other callers' round trips   *)
(* can come between them; every other store function is one round trip.    *)
(* Any round trip can return an error, and then it has changed nothing.    *)
(***************************************************************************)
\* a variant in which an error of a store call ends the loop: `return`
Continue_ReturnOnError(outcome) ==
    /\ pc' = IF outcome \in {"probe_error", "increment_error", "add_error"} THEN "exited" ELSE "recv"
    /\ pm' = NoLocals
    /\ lastOutcome' = outcome
    /\ hist' = [hist EXCEPT ![resp.InfoHash] =
                    [n |-> @.n + 1,
                     clean |-> @.clean /\ outcome \in {"inserted", "incremented"}]]

\* the item is finished with the given outcome: `continue`
Continue(outcome) ==
    /\ pc' = "recv"
    /\ pm' = NoLocals
    /\ lastOutcome' = outcome
    /\ hist' = [hist EXCEPT ![resp.InfoHash] =
                    [n |-> @.n + 1,
                     clean |-> @.clean /\ outcome \in {"inserted", "incremented"}]]

\* crawler_main.go: dhtCrawler.Start()
Start ==
    /\ ~running
    /\ stopPc = "idle"
    /\ pc = "off"
    /\ running' = TRUE
    /\ pc' = "recv"
    /\ UNCHANGED <<filterVars, outsideIngest, stopPc, store, uniqueIndex, resp, pm, addPc,
                   addArg, hist, lastOutcome, opsLog, nDelivered, nApiCalls>>

\* crawler_main.go: dhtCrawler.Stop(), up to c.wg.Wait()
Stop ==
    /\ running
    /\ stopPc = "idle"
    /\ running' = FALSE
    /\ stopPc' = "wait"
    /\ UNCHANGED <<filterVars, outsideIngest, store, uniqueIndex, pc, resp, pm, addPc,
                   addArg, hist, lastOutcome, opsLog, nDelivered, nApiCalls>>

\* c.wg.Wait() returns once processMetadata has returned
StopReturn ==
    /\ stopPc = "wait"
    /\ pc = "exited"
    /\ stopPc' = "done"
    /\ UNCHANGED <<filterVars, outsideIngest, running, store, uniqueIndex, pc, resp, pm, addPc,
                   addArg, hist, lastOutcome, opsLog, nDelivered, nApiCalls>>

\* processMetadata, from the receive on the Wire's response channel to the
\* empty-name test: all of it local to the goroutine
Receive ==
    /\ pc = "recv"
    /\ nDelivered < MaxDeliveries
    /\ nDelivered' = nDelivered + 1
    /\ \E r \in Responses :
          IF ~running
          THEN /\ pc' = "exited"
               /\ UNCHANGED <<resp, pm, opsLog, hist, lastOutcome>>
          ELSE /\ resp' = r
               /\ opsLog' = <<>>
               /\ IF r.MetadataInfo.err
                  THEN /\ pm' = NoLocals
                       /\ pc' = "recv"
                       /\ lastOutcome' = "decode_error"
                       /\ hist' = [hist EXCEPT ![r.InfoHash] = [n |-> @.n + 1, clean |-> FALSE]]
                  ELSE LET c == convertToTorrentMetadata(r.InfoHash, r.MetadataInfo.value) IN
                       IF c.err \/ c.meta.Name = ""
                       THEN /\ pm' = NoLocals
                            /\ pc' = "recv"
                            /\ lastOutcome' = IF c.err THEN "convert_error" ELSE "empty_name"
                            /\ hist' = [hist EXCEPT ![r.InfoHash] = [n |-> @.n + 1, clean |-> FALSE]]
                       ELSE /\ pm' = [NoLocals EXCEPT !.meta = c.meta]
                            /\ pc' = "probe"
                            /\ lastOutcome' = "none"
                            /\ UNCHANGED hist
    /\ UNCHANGED <<filterVars, outsideIngest, running, stopPc, store, uniqueIndex, addPc, addArg,
                   nApiCalls>>

\* exists, err := database.InfoHashExists(c.db, torrentMetadata.InfoHash)
Probe ==
    /\ pc = "probe"
    /\ opsLog' = Append(opsLog, "InfoHashExists")
    /\ \E ok \in BOOLEAN :
          IF ~ok
          THEN Continue("probe_error")
          ELSE /\ pm' = [pm EXCEPT !.exists = InfoHashExists(store, pm.meta.InfoHash)]
               /\ pc' = IF pm'.exists THEN "increment" ELSE "match"
               /\ UNCHANGED <<hist, lastOutcome>>
    /\ UNCHANGED <<filterVars, outsideIngest, running, stopPc, store, uniqueIndex, resp, addPc,
                   addArg, nDelivered, nApiCalls>>

\* err = database.IncrementTorrentHeat(c.db, torrentMetadata.InfoHash); continue
Increment ==
    /\ pc = "increment"
    /\ opsLog' = Append(opsLog, "IncrementTorrentHeat")
    /\ \E ok \in BOOLEAN :
          /\ store' = IF ok THEN IncrementTorrentHeat(store, pm.meta.InfoHash) ELSE store
          /\ Continue(IF ok THEN "incremented" ELSE "increment_error")
    /\ UNCHANGED <<filterVars, outsideIngest, running, stopPc, uniqueIndex, resp, addPc,
                   addArg, nDelivered, nApiCalls>>

\* matched, keyword := c.filter.MatchContent(torrentMetadata.Name)
Match ==
    /\ pc = "match"
    /\ opsLog' = Append(opsLog, "MatchContent")
    /\ LET r == MatchContent(kf, pm.meta.Name) IN
          IF ~r.matched
          THEN Continue("unmatched")
          ELSE /\ pm' = [pm EXCEPT !.matched = TRUE, !.keyword = r.keyword,
                                   !.mappedAtMatch = GetCategory(kf, r.keyword)]
               /\ pc' = "getcat"
               /\ UNCHANGED <<hist, lastOutcome>>
    /\ UNCHANGED <<filterVars, outsideIngest, running, stopPc, store, uniqueIndex, resp, addPc,
                   addArg, nDelivered, nApiCalls>>

\* category := c.filter.GetCategory(keyword), the classifier when it is "",
\* convertMetadataToTorrent, and the call of database.AddTorrent
ResolveCategory ==
    /\ pc = "getcat"
    /\ opsLog' = opsLog \o <<"GetCategory", "AddTorrent">>
    /\ \E rangeStart \in RangeStarts, rangeStart2 \in RangeStarts, now \in ProcessNowInputs :
          LET mapped   == GetCategory(kf, pm.keyword)
              category == IF mapped = ""
                          THEN categorizeContent(pm.meta.Name, Len(pm.meta.Files),
                                                 pm.meta.Length, rangeStart)
                          ELSE mapped
              torrent  == convertMetadataToTorrent(pm.meta, category, rangeStart2, now)
          IN  /\ pm' = [pm EXCEPT !.torrent = torrent]
              /\ addArg' = [addArg EXCEPT !["crawler"] = torrent]
    /\ addPc' = [addPc EXCEPT !["crawler"] = "FindOne"]
    /\ pc' = "add"
    /\ UNCHANGED <<filterVars, outsideIngest, running, stopPc, store, uniqueIndex, resp, hist,
                   lastOutcome, nDelivered, nApiCalls>>

\* AddTorrent returns to its caller; processMetadata goes on with the next item
Return(p, outcome) ==
    /\ addPc' = [addPc EXCEPT ![p] = "idle"]
    /\ addArg' = [addArg EXCEPT ![p] = None]
    /\ IF p = "crawler" THEN Continue(outcome) ELSE UNCHANGED <<pc, pm, lastOutcome, hist>>

\* err := db.Torrents.FindOne(ctx, bson.M{"info_hash": torrent.InfoHash})
AddTorrentFindOne(p) ==
    /\ addPc[p] = "FindOne"
    /\ \E ok \in BOOLEAN :
          IF ~ok
          THEN Return(p, "add_error")
          ELSE /\ addPc' = [addPc EXCEPT ![p] =
                      IF FirstMatching(store, addArg[p].InfoHash) # 0
                      THEN "UpdateOne" ELSE "InsertOne"]
               /\ UNCHANGED <<addArg, pc, pm, lastOutcome, hist>>
    /\ UNCHANGED <<filterVars, outsideIngest, running, stopPc, store, uniqueIndex, resp,
                   opsLog, nDelivered, nApiCalls>>

\* _, err := db.Torrents.UpdateOne(ctx, ..., {"$inc": {"heat": 1}}); return err
AddTorrentUpdateOne(p) ==
    /\ addPc[p] = "UpdateOne"
    /\ \E ok \in BOOLEAN :
          /\ store' = IF ok THEN UpdateOneIncHeat(store, addArg[p].InfoHash) ELSE store
          /\ Return(p, IF ok THEN "updated" ELSE "add_error")
    /\ UNCHANGED <<filterVars, outsideIngest, running, stopPc, uniqueIndex, resp,
                   opsLog, nDelivered, nApiCalls>>

\* _, err := db.Torrents.InsertOne(ctx, torrent); return err
AddTorrentInsertOne(p) ==
    /\ addPc[p] = "InsertOne"
    /\ \E ok \in BOOLEAN :
          LET r == InsertOne(store, uniqueIndex, addArg[p]) IN
          /\ store' = IF ok THEN r.docs ELSE store
          /\ Return(p, IF ok /\ ~r.err THEN "inserted" ELSE "add_error")
    /\ UNCHANGED <<filterVars, outsideIngest, running, stopPc, uniqueIndex, resp,
                   opsLog, nDelivered, nApiCalls>>

\* apiAddTorrentHandler, up to its call of database.AddTorrent; a request
\* with an empty title, info-hash or magnet link is answered 400 and calls nothing
ApiAddTorrent ==
    /\ addPc["api"] = "idle"
    /\ nApiCalls < MaxApiCalls
    /\ nApiCalls' = nApiCalls + 1
    /\ \E torrent \in ApiTorrents, now \in ProcessNowInputs :
          /\ torrent.Title # "" /\ torrent.InfoHash # "" /\ torrent.MagnetLink # ""
          /\ addArg' = [addArg EXCEPT !["api"] =
                          IF IsZero(torrent.UploadDate)
                          THEN [torrent EXCEPT !.UploadDate = now] ELSE torrent]
          /\ hist' = [h \in DOMAIN hist |->
                        IF EncodeToString(h) = torrent.InfoHash
                        THEN [hist[h] EXCEPT !.clean = FALSE] ELSE hist[h]]
    /\ addPc' = [addPc EXCEPT !["api"] = "FindOne"]
    /\ UNCHANGED <<filterVars, outsideIngest, running, stopPc, store, uniqueIndex, pc, resp, pm,
                   lastOutcome, opsLog, nDelivered>>

\* Crawler.AddKeyword, called by the keyword API while the pipeline runs
CrawlerAddKeyword ==
    /\ \E keyword \in KeywordCallInputs, category \in CategoryCallInputs :
          DoAddKeyword(keyword, category)
    /\ UNCHANGED <<lastMatch, outsideIngest, ingestVars>>

\* Crawler.RemoveKeyword
CrawlerRemoveKeyword ==
    /\ \E keyword \in KeywordCallInputs : DoRemoveKeyword(keyword)
    /\ UNCHANGED <<lastMatch, outsideIngest, ingestVars>>

\* the state after database.InitDB and crawler.NewCrawler
Init ==
    /\ kf = initDefaultKeywords(NewKeywordFilter)
    /\ kwOrder = kf.keywords
    /\ lastMatch = None
    /\ CatIdle
    /\ ConvIdle
    /\ DhtIdle
    /\ RestIdle
    /\ running = FALSE
    /\ stopPc = "idle"
    /\ store = <<>>
    /\ uniqueIndex \in BOOLEAN
    /\ pc = "off"
    /\ resp = None
    /\ pm = NoLocals
    /\ addPc = [p \in Callers |-> "idle"]
    /\ addArg = [p \in Callers |-> None]
    /\ hist = [h \in Hashes |-> NoHistory]
    /\ lastOutcome = "none"
    /\ opsLog = <<>>
    /\ nDelivered = 0
    /\ nApiCalls = 0

Next ==
    \/ Start
    \/ Stop
    \/ StopReturn
    \/ Receive
    \/ Probe
    \/ Increment
    \/ Match
    \/ ResolveCategory
    \/ \E p \in Callers : AddTorrentFindOne(p)
    \/ \E p \in Callers : AddTorrentUpdateOne(p)
    \/ \E p \in Callers : AddTorrentInsertOne(p)
    \/ ApiAddTorrent
    \/ CrawlerAddKeyword
    \/ CrawlerRemoveKeyword

Spec == Init /\ [][Next]_vars

(***************************************************************************)
(* The DHT engine's goroutines.  Run is one goroutine: init(), then        *)
(* listen(), join() and Ready = true, then the select loop.  listen()      *)
(* starts the UDP reader and init() the stats monitor; Stop and GetPeers   *)
(* are called from other goroutines at any time.  A process that has       *)
(* exited or panicked takes no step.                                       *)
(***************************************************************************)
Alive == host.process = "alive"

\* Run: dht.init().  initNAT probes the host; net.ListenPacket binds the
\* socket or the goroutine panics; the stats monitor is started
RunInit ==
    /\ Alive
    /\ task.run = "new"
    /\ \E env \in NatEnvs, bound \in BOOLEAN :
          IF initNAT(env).exited
          THEN /\ host' = [host EXCEPT !.process = "exited", !.nat = env]
               /\ UNCHANGED <<dht, task>>
          ELSE IF ~bound
          THEN /\ host' = [host EXCEPT !.process = "panicked", !.nat = env]
               /\ dht' = [dht EXCEPT !.natTraversal = TRUE,
                                     !.externalIP = initNAT(env).externalIP]
               /\ UNCHANGED task
          ELSE /\ host' = [host EXCEPT !.nat = env]
               /\ dht' = [dht EXCEPT !.natTraversal = TRUE,
                                     !.externalIP = initNAT(env).externalIP,
                                     !.conn = "open",
                                     !.routingTable = {}]
               /\ task' = [task EXCEPT !.run = "init", !.stats = "select"]
    /\ UNCHANGED <<outsideDht, lastGetPeers>>

\* Run: dht.listen(); dht.join(); dht.Ready = true
RunListenJoin ==
    /\ Alive
    /\ task.run = "init"
    /\ task' = [task EXCEPT !.run = "loop", !.reader = "select"]
    /\ host' = [host EXCEPT !.joins = 1]
    /\ dht' = [dht EXCEPT !.Ready = TRUE]
    /\ UNCHANGED <<outsideDht, lastGetPeers>>

\* Run's select, case pkt = <-dht.packets: handle(dht, pkt)
RunHandlePacket ==
    /\ Alive
    /\ task.run = "loop"
    /\ dht.packets # <<>>
    /\ dht' = [dht EXCEPT !.packets = Tail(@),
                          !.routingTable = @ \cup {Head(dht.packets)}]
    /\ UNCHANGED <<outsideDht, task, host, lastGetPeers>>

\* Run's select, case <-tick: join() again while the routing table is
\* empty.  With nodes in the table the tick, like the NAT refresh tick,
\* changes none of the fields modelled here
RunTick ==
    /\ Alive
    /\ task.run = "loop"
    /\ dht.routingTable = {}
    /\ host.joins < MaxJoins
    /\ host' = [host EXCEPT !.joins = @ + 1]
    /\ UNCHANGED <<outsideDht, dht, task, lastGetPeers>>

\* a variant of the closing case that returns when the queue is empty
RunClosing_OnEmptyQueue ==
    /\ Alive
    /\ task.run = "loop"
    /\ dht.closing \/ dht.packets = <<>>
    /\ task' = [task EXCEPT !.run = "returned"]
    /\ UNCHANGED <<outsideDht, dht, host, lastGetPeers>>

\* Run's select, case <-dht.closing: return
RunClosing ==
    /\ Alive
    /\ task.run = "loop"
    /\ dht.closing
    /\ task' = [task EXCEPT !.run = "returned"]
    /\ UNCHANGED <<outsideDht, dht, host, lastGetPeers>>

\* the reader's select: return when closing is closed, else the default case
ReaderSelect ==
    /\ Alive
    /\ task.reader = "select"
    /\ task' = [task EXCEPT !.reader = IF dht.closing THEN "exited" ELSE "read"]
    /\ UNCHANGED <<outsideDht, dht, host, lastGetPeers>>

\* dht.conn.ReadFromUDP returns a packet
ReaderReadPacket ==
    /\ Alive
    /\ task.reader = "read"
    /\ dht.conn = "open"
    /\ host.nRead < MaxPackets
    /\ host' = [host EXCEPT !.nRead = @ + 1]
    /\ task' = [task EXCEPT !.reader = "send", !.pkt = host.nRead + 1]
    /\ UNCHANGED <<outsideDht, dht, lastGetPeers>>

\* dht.conn.ReadFromUDP returns an error, as it does on a closed socket: continue
ReaderReadError ==
    /\ Alive
    /\ task.reader = "read"
    /\ dht.conn = "closed"
    /\ task' = [task EXCEPT !.reader = "select"]
    /\ UNCHANGED <<outsideDht, dht, host, lastGetPeers>>

\* dht.packets <- packet{buff[:n], raddr}: a send on a channel of capacity
\* PacketJobLimit, which waits while the channel is full
ReaderSend ==
    /\ Alive
    /\ task.reader = "send"
    /\ Len(dht.packets) < PacketJobLimit
    /\ dht' = [dht EXCEPT !.packets = Append(@, task.pkt)]
    /\ task' = [task EXCEPT !.reader = "select", !.pkt = 0]
    /\ UNCHANGED <<outsideDht, host, lastGetPeers>>

\* startStatsMonitor's select, case <-dht.closing: return.  The ticker case
\* prints and changes nothing
StatsClosing ==
    /\ Alive
    /\ task.stats = "select"
    /\ dht.closing
    /\ task' = [task EXCEPT !.stats = "exited"]
    /\ UNCHANGED <<outsideDht, dht, host, lastGetPeers>>

\* Stop: close(dht.closing)
StopClose ==
    /\ Alive
    /\ task.stop = "idle"
    /\ dht' = [dht EXCEPT !.closing = TRUE]
    /\ task' = [task EXCEPT !.stop = "cleanup"]
    /\ UNCHANGED <<outsideDht, host, lastGetPeers>>

\* Stop: natTraversal.Shutdown, dht.conn.Close() if there is a socket, printStats
StopCleanup ==
    /\ Alive
    /\ task.stop = "cleanup"
    /\ dht' = [dht EXCEPT !.conn = IF @ = "open" THEN "closed" ELSE @]
    /\ task' = [task EXCEPT !.stop = "done"]
    /\ UNCHANGED <<outsideDht, host, lastGetPeers>>

\* a client calls GetPeers(infoHash)
ClientGetPeers ==
    /\ Alive
    /\ \E infoHash \in InfoHashInputs :
          lastGetPeers' = [infoHash |-> infoHash, stopped |-> dht.closing,
                           result |-> GetPeers(dht, infoHash)]
    /\ UNCHANGED <<outsideDht, dht, task, host>>

\* an engine made by New, with or without the OnGetPeersResponse callback
DhtInit ==
    /\ \E callback \in BOOLEAN : dht = New(callback)
    /\ task = NoTasks
    /\ host = NoHost
    /\ lastGetPeers = None
    /\ FilterIdle
    /\ CatIdle
    /\ IngestIdle
    /\ ConvIdle
    /\ RestIdle

DhtNext ==
    \/ RunInit
    \/ RunListenJoin
    \/ RunHandlePacket
    \/ RunTick
    \/ RunClosing
    \/ ReaderSelect
    \/ ReaderReadPacket
    \/ ReaderReadError
    \/ ReaderSend
    \/ StatsClosing
    \/ StopClose
    \/ StopCleanup
    \/ ClientGetPeers

SpecDHT == DhtInit /\ [][DhtNext]_vars

\* Every goroutine that can take a step takes it, and a select whose
\* closing case is ready takes that case in the end.  When a packet arrives
\* and when Run, Stop and GetPeers are called is not up to the engine
(***************************************************************************)
(* The NAT helper as the engine uses it: AddPortMapping and Setup in       *)
(* initNAT, Refresh on the Run loop's 10-minute tick, Shutdown in Stop.    *)
(***************************************************************************)
NatAlive == natTask.process = "alive"

\* n.AddPortMapping(protocol, extPort, intPort, desc)
NatAddPortMapping ==
    /\ NatAlive
    /\ natTask.pc = "new"
    /\ Len(nat.Mappings) < MaxMappings
    /\ \E mapping \in PortMappingInputs : nat' = [nat EXCEPT !.Mappings = Append(@, mapping)]
    /\ UNCHANGED <<outsideNat, router, natTask>>

\* initNAT: err = dht.natTraversal.Setup(ctx); an error is logged
NatSetup ==
    /\ NatAlive
    /\ natTask.pc = "new"
    /\ \E env \in SetupEnvs :
          LET r == NATTraversal_Setup(nat, env) IN
          /\ nat' = r.nat
          /\ router' = [router EXCEPT !.created = @ \cup r.created]
          /\ natTask' = [pc |-> "ready",
                         process |-> IF r.result = "fatal" THEN "exited" ELSE "alive",
                         setup |-> r.result]
    /\ UNCHANGED outsideNat

\* Run, case <-natRefreshTick: if dht.natTraversal != nil, Refresh(ctx); an
\* error is logged, a call on a nil client panics
NatRefreshTick ==
    /\ NatAlive
    /\ natTask.pc = "ready"
    /\ \E okCount \in 0..MaxMappings :
          LET r == NATTraversal_Refresh(nat, okCount) IN
          /\ router' = [router EXCEPT !.created = @ \cup r.created]
          /\ natTask' = [natTask EXCEPT !.process = IF r.nilClient THEN "panicked" ELSE @]
    /\ UNCHANGED <<outsideNat, nat>>

\* Stop: dht.natTraversal.Shutdown(ctx)
NatShutdown ==
    /\ NatAlive
    /\ natTask.pc = "ready"
    /\ router' = [router EXCEPT !.deleted = @ \cup NATTraversal_Shutdown(nat)]
    /\ natTask' = [natTask EXCEPT !.pc = "down"]
    /\ UNCHANGED <<outsideNat, nat>>

NatInit ==
    /\ NatIdle
    /\ IdleOutsideNat

NatNext ==
    \/ NatAddPortMapping
    \/ NatSetup
    \/ NatRefreshTick
    \/ NatShutdown

SpecNAT == NatInit /\ [][NatNext]_vars

SpecDHTFair ==
    /\ DhtInit
    /\ [][DhtNext]_vars
    /\ WF_vars(RunListenJoin)
    /\ WF_vars(RunHandlePacket)
    /\ WF_vars(RunClosing)
    /\ WF_vars(ReaderSelect)
    /\ WF_vars(ReaderReadError)
    /\ WF_vars(ReaderSend)
    /\ WF_vars(StatsClosing)
    /\ WF_vars(StopCleanup)

(***************************************************************************)
(* The bencode encoder of package crawler (calculateInfoHash,              *)
(* writeBencodedDict, writeBencodedValue) on its own: a client encodes a   *)
(* dictionary more than once, and each call ranges over the maps in an     *)
(* order of its own.                                                       *)
(***************************************************************************)
MaxEncCalls == 2
MaxRangeOrders == 6

Digits == "0123456789"

RECURSIVE FormatUint(_)
\* the decimal digits of n >= 0
FormatUint(n) ==
    IF n < 10 THEN CharAt(Digits, n + 1)
    ELSE FormatUint(n \div 10) \o CharAt(Digits, (n % 10) + 1)

\* strconv.Itoa, strconv.FormatInt(v, 10)
Itoa(n) == IF n < 0 THEN "-" \o FormatUint(0 - n) ELSE FormatUint(n)

RECURSIVE StrLess(_, _)
\* a < b on Go strings: byte by byte, a proper prefix first
StrLess(a, b) ==
    IF Len(b) = 0 THEN FALSE
    ELSE IF Len(a) = 0 THEN TRUE
    ELSE IF ByteOf(CharAt(a, 1)) # ByteOf(CharAt(b, 1))
         THEN ByteOf(CharAt(a, 1)) < ByteOf(CharAt(b, 1))
    ELSE StrLess(SubSeq(a, 2, Len(a)), SubSeq(b, 2, Len(b)))

RECURSIVE InsertSorted(_, _)
InsertSorted(sorted, k) ==
    IF sorted = <<>> THEN <<k>>
    ELSE IF StrLess(k, Head(sorted)) THEN <<k>> \o sorted
    ELSE <<Head(sorted)>> \o InsertSorted(Tail(sorted), k)

RECURSIVE SortStrings(_)
\* sort.Strings
SortStrings(keys) ==
    IF keys = <<>> THEN <<>>
    ELSE InsertSorted(SortStrings(Tail(keys)), Head(keys))

RECURSIVE NthOf(_, _)
NthOf(set, i) ==
    LET x == CHOOSE y \in set : TRUE
    IN  IF i = 0 THEN x ELSE NthOf(set \ {x}, i - 1)

RECURSIVE RangeOrder(_, _)
\* `for k := range dict`: the keys in one of the orders the runtime may
\* produce, the order number `order` of them
RangeOrder(keys, order) ==
    IF keys = {} THEN <<>>
    ELSE LET n == Cardinality(keys)
             k == NthOf(keys, order % n)
         IN  <<k>> \o RangeOrder(keys \ {k}, order \div n)

\* a value of a type the encoder has no case for
Float64 == [t |-> "float64"]

RECURSIVE writeBencodedValue(_, _, _)
RECURSIVE writeBencodedDict(_, _, _)
RECURSIVE writeItems(_, _, _, _)
RECURSIVE writeEntries(_, _, _, _, _)
RECURSIVE writeBencodedDict_Unsorted(_, _, _)

\* the loop over a list's items; it returns at the first error
writeItems(buffer, items, i, order) ==
    IF i > Len(items) THEN [err |-> FALSE, out |-> buffer]
    ELSE LET r == writeBencodedValue(buffer, items[i], order)
         IN  IF r.err THEN r ELSE writeItems(r.out, items, i + 1, order)

\* the loop over a dictionary's keys; it returns at the first error
writeEntries(buffer, dict, keys, i, order) ==
    IF i > Len(keys) THEN [err |-> FALSE, out |-> buffer]
    ELSE LET k == keys[i]
             r == writeBencodedValue(buffer \o Itoa(Len(k)) \o ":" \o k, dict[k], order)
         IN  IF r.err THEN r ELSE writeEntries(r.out, dict, keys, i + 1, order)

\* the encoder without its sort.Strings
writeBencodedDict_Unsorted(buffer, dict, order) ==
    LET keys == RangeOrder(DOMAIN dict, order)
        r == writeEntries(buffer \o "d", dict, keys, 1, order)
    IN  IF r.err THEN r ELSE [err |-> FALSE, out |-> r.out \o "e"]

\* writeBencodedDict(writer, dict): what the buffer holds afterwards, and
\* whether an error came back
writeBencodedDict(buffer, dict, order) ==
    LET keys == SortStrings(RangeOrder(DOMAIN dict, order))
        r == writeEntries(buffer \o "d", dict, keys, 1, order)
    IN  IF r.err THEN r ELSE [err |-> FALSE, out |-> r.out \o "e"]

writeBencodedValue(buffer, value, order) ==
    CASE value.t = "string" ->
            [err |-> FALSE, out |-> buffer \o Itoa(Len(value.s)) \o ":" \o value.s]
      [] value.t = "int" ->
            [err |-> FALSE, out |-> buffer \o "i" \o Itoa(value.n) \o "e"]
      [] value.t = "int64" ->
            [err |-> FALSE, out |-> buffer \o "i" \o Itoa(value.n) \o "e"]
      [] value.t = "list" ->
            LET r == writeItems(buffer \o "l", value.l, 1, order)
            IN  IF r.err THEN r ELSE [err |-> FALSE, out |-> r.out \o "e"]
      [] value.t = "dict" -> writeBencodedDict(buffer, value.d, order)
      [] OTHER -> [err |-> TRUE, out |-> buffer]

\* sha1 of the buffer, then hex.EncodeToString: a function of the bytes alone
Sha1Hex(bytes) == [hex |-> [sha1 |-> bytes]]

\* calculateInfoHash(info): the hash and the error
calculateInfoHash(info, order) ==
    LET r == writeBencodedDict("", info, order)
    IN  IF r.err THEN [hash |-> "", err |-> TRUE]
        ELSE [hash |-> Sha1Hex(r.out), err |-> FALSE]

\* the dictionaries the client encodes
InfoBA == ("b" :> GoInt(2)) @@ ("a" :> Str("x"))
InfoCase == ("B" :> GoInt(1)) @@ ("a" :> I64(0 - 7)) @@ ("ab" :> Str(""))
InfoFiles ==
    ("name" :> Str("UHD")) @@ ("length" :> GoInt(12)) @@
    ("files" :> List(<<Dict(("path" :> List(<<Str("a")>>)) @@ ("length" :> I64(0)))>>))
InfoNested ==
    ("z" :> Dict(("y" :> GoInt(10)) @@ ("x" :> Str("k")) @@
                 ("10" :> GoInt(3)) @@ ("9" :> GoInt(4)))) @@
    ("" :> Str("e"))
InfoEmpty == [k \in {} |-> None]
InfoFloat == ("b" :> Float64) @@ ("a" :> Str("x"))

InfoBytes == ("a" :> GoInt(3)) @@ ("_" :> GoInt(2)) @@ ("Z" :> GoInt(1))

InfoInputs == {InfoBA, InfoCase, InfoFiles, InfoNested, InfoEmpty, InfoFloat, InfoBytes}

\* the client takes a dictionary to encode
ClientChooseInfo ==
    /\ enc.info = None
    /\ \E info \in InfoInputs : enc' = [enc EXCEPT !.info = info]
    /\ UNCHANGED outsideEnc

\* the client calls writeBencodedDict on a fresh buffer and calculateInfoHash
ClientEncode ==
    /\ enc.info # None
    /\ Len(enc.calls) < MaxEncCalls
    /\ \E info \in {enc.info}, order \in 0..(MaxRangeOrders - 1) :
          /\ LET r == writeBencodedDict("", info, order)
                 h == calculateInfoHash(info, order)
             IN  enc' = [info |-> info,
                         calls |-> Append(enc.calls,
                                     [keys |-> RangeOrder(DOMAIN info, order),
                                      err |-> r.err, out |-> r.out,
                                      hash |-> h.hash, hashErr |-> h.err])]
    /\ UNCHANGED outsideEnc

EncInit ==
    /\ EncIdle
    /\ IdleOutsideEnc

EncNext ==
    \/ ClientChooseInfo
    \/ ClientEncode

SpecEnc == EncInit /\ [][EncNext]_vars

(***************************************************************************)
(* DHT.id on its own: an engine in either mode with a 20-byte node ID      *)
(* (New: randomString(20)), and a client that calls id with targets.       *)
(***************************************************************************)
MaxIdCalls == 2

StandardMode == 0
CrawlMode == 1

IsStandardMode(d) == d.Mode = StandardMode

\* id(target); target[:15] and RawString()[15:] panic on a shorter string
id_OwnPrefix(d, target) ==
    IF IsStandardMode(d) \/ target = ""
    THEN [panic |-> FALSE, s |-> d.node]
    ELSE IF Len(target) < 15 \/ Len(d.node) < 15
    THEN [panic |-> TRUE, s |-> ""]
    ELSE [panic |-> FALSE,
          s |-> SubSeq(d.node, 1, 15) \o SubSeq(target, 16, Len(target))]

id(d, target) ==
    IF IsStandardMode(d) \/ target = ""
    THEN [panic |-> FALSE, s |-> d.node]
    ELSE IF Len(target) < 15 \/ Len(d.node) < 15
    THEN [panic |-> TRUE, s |-> ""]
    ELSE [panic |-> FALSE,
          s |-> SubSeq(target, 1, 15) \o SubSeq(d.node, 16, Len(d.node))]

\* node IDs as randomString(20) makes them
OwnIds == {"ABCDEFGHIJKLMNOPQRST", "0123456789abcde_____"}

\* targets: 20 bytes, empty, and one too short to cut at 15
TargetInputs == {"abcdefghijklmnopqrst", "0123456789abcde01234", "ABCDEFGHIJKLMNOPQRST",
                 "", "abc"}

\* the client calls dht.id(target)
ClientId ==
    /\ Len(idc.calls) < MaxIdCalls
    /\ \A i \in 1..Len(idc.calls) : ~idc.calls[i].result.panic
    /\ \E target \in TargetInputs :
          idc' = [idc EXCEPT !.calls = Append(@, [target |-> target,
                                                    result |-> id(idc, target)])]
    /\ UNCHANGED outsideId

\* the engine is stopped and a new one made, with a node ID of its own
ClientNew ==
    /\ idc.calls # <<>>
    /\ \E mode \in {StandardMode, CrawlMode}, node \in OwnIds :
          idc' = [Mode |-> mode, node |-> node, calls |-> <<>>]
    /\ UNCHANGED outsideId

IdInit ==
    /\ \E mode \in {StandardMode, CrawlMode}, node \in OwnIds :
          idc = [Mode |-> mode, node |-> node, calls |-> <<>>]
    /\ IdleOutsideId

IdNext ==
    \/ ClientId
    \/ ClientNew

SpecId == IdInit /\ [][IdNext]_vars

(***************************************************************************)
(* The Run loop's CheckKBucketPeriod tick on its own.  The routing table   *)
(* and the transaction manager are known by their sizes: a query sent adds *)
(* a pending transaction, a response resolves one and puts its sender in   *)
(* the table, a transaction that fails takes its node out of the table.    *)
(***************************************************************************)
MaxTableNodes == 2
MaxTransactions == 3

PrimeNodes == {"router.bittorrent.com:6881", "dht.transmissionbt.com:6881"}

\* join(): one find_node(own id) to every prime node whose address resolves
join(d, resolved) ==
    [queries |-> resolved,
     d |-> [d EXCEPT !.transactions = @ + Cardinality(resolved)]]

\* a tick that calls Fresh whatever the transaction manager holds
tickCase_AlwaysFresh(d, resolved) ==
    IF d.nodes = 0
    THEN LET j == join(d, resolved)
         IN  [j.d EXCEPT !.lastTick =
                 [nodes |-> d.nodes, transactions |-> d.transactions, joined |-> TRUE,
                  resolved |-> resolved, queries |-> j.queries, fresh |-> FALSE]]
    ELSE [d EXCEPT !.lastTick =
             [nodes |-> d.nodes, transactions |-> d.transactions, joined |-> FALSE,
              resolved |-> resolved, queries |-> {}, fresh |-> TRUE]]

\* Run's select, case <-tick; lastTick records what the case did
tickCase(d, resolved) ==
    IF d.nodes = 0
    THEN LET j == join(d, resolved)
         IN  [j.d EXCEPT !.lastTick =
                 [nodes |-> d.nodes, transactions |-> d.transactions, joined |-> TRUE,
                  resolved |-> resolved, queries |-> j.queries, fresh |-> FALSE]]
    ELSE IF d.transactions = 0
    THEN [d EXCEPT !.lastTick =
             [nodes |-> d.nodes, transactions |-> d.transactions, joined |-> FALSE,
              resolved |-> resolved, queries |-> {}, fresh |-> TRUE]]
    ELSE [d EXCEPT !.lastTick =
             [nodes |-> d.nodes, transactions |-> d.transactions, joined |-> FALSE,
              resolved |-> resolved, queries |-> {}, fresh |-> FALSE]]

\* the tick fires; `resolved` are the prime nodes net.ResolveUDPAddr resolves
KbTick ==
    /\ \E resolved \in SUBSET PrimeNodes :
          /\ kb.transactions + Cardinality(resolved) <= MaxTransactions
          /\ kb' = tickCase(kb, resolved)
    /\ UNCHANGED outsideKb

\* a response resolves a pending transaction and its sender enters the table
KbResponse ==
    /\ kb.transactions > 0
    /\ kb' = [kb EXCEPT !.transactions = @ - 1,
                        !.nodes = IF @ < MaxTableNodes THEN @ + 1 ELSE @]
    /\ UNCHANGED outsideKb

\* a transaction runs out of tries: it is dropped and its node leaves the table
KbTransactionFails ==
    /\ kb.transactions > 0
    /\ kb' = [kb EXCEPT !.transactions = @ - 1,
                        !.nodes = IF @ > 0 THEN @ - 1 ELSE @]
    /\ UNCHANGED outsideKb

\* a query goes out to a node of the table (GetPeers, a refresh, a reply's nodes)
KbQuery ==
    /\ kb.nodes > 0
    /\ kb.transactions < MaxTransactions
    /\ kb' = [kb EXCEPT !.transactions = @ + 1]
    /\ UNCHANGED outsideKb

\* Run before its loop: init, listen, the first join
KbInit ==
    /\ \E resolved \in SUBSET PrimeNodes : kb = join(NoKb, resolved).d
    /\ IdleOutsideKb

KbNext ==
    \/ KbTick
    \/ KbResponse
    \/ KbTransactionFails
    \/ KbQuery

SpecKb == KbInit /\ [][KbNext]_vars

(***************************************************************************)
(* The filter shared by goroutines (filter.go with its sync.RWMutex): two  *)
(* goroutines call the reading methods and one calls the mutating ones.    *)
(* Each method is cut at its lock, the loops it runs inside the lock, and  *)
(* its deferred unlock.  mutex.writer is none, pending (Lock has announced *)
(* itself and waits for the readers to leave) or held.                     *)
(***************************************************************************)
\* RLock goes through while no writer holds the mutex or waits for it
CanRLock(mutex) == mutex.writer = "none"

\* a Lock that does not wait for the readers inside
CanLock_IgnoreReaders(mutex) == mutex.writer = "pending"

\* Lock goes through once the readers that were inside have left
CanLock(mutex) == mutex.writer = "pending" /\ mutex.readers = {}

ReadCalls == {[op |-> "MatchContent", arg |-> "aB"], [op |-> "GetCategory", arg |-> "A"],
              [op |-> "GetKeywords", arg |-> ""], [op |-> "GetBlacklist", arg |-> ""]}

WriteCalls == {[op |-> "AddKeyword", arg |-> "A", category |-> "Movie"],
               [op |-> "RemoveKeyword", arg |-> "a", category |-> ""],
               [op |-> "AddToBlacklist", arg |-> "B", category |-> ""],
               [op |-> "RemoveFromBlacklist", arg |-> "b", category |-> ""]}

\* a goroutine calls a reading method with a non-empty argument
ReaderCall(g) ==
    /\ rw.r[g].pc = "idle"
    /\ \E c \in ReadCalls :
          rw' = [rw EXCEPT !.r[g] = [IdleCall EXCEPT !.pc = "rlock", !.op = c.op,
                                                      !.arg = c.arg]]
    /\ UNCHANGED outsideRw

\* kf.mutex.RLock(); snap remembers the filter as it is at this moment
ReaderRLock(g) ==
    /\ rw.r[g].pc = "rlock"
    /\ CanRLock(rw.mutex)
    /\ rw' = [rw EXCEPT !.mutex.readers = @ \cup {g},
                        !.r[g].snap = rw.kf,
                        !.r[g].pc = IF rw.r[g].op = "MatchContent" THEN "blacklist"
                                    ELSE "read"]
    /\ UNCHANGED outsideRw

\* MatchContent: the loop over kf.blacklist
MatchBlacklist(g) ==
    /\ rw.r[g].pc = "blacklist"
    /\ rw' = IF FirstContained(rw.kf.blacklist, ToLower(rw.r[g].arg), 1) # 0
             THEN [rw EXCEPT !.r[g].result = NoMatch, !.r[g].pc = "runlock"]
             ELSE [rw EXCEPT !.r[g].pc = "keywords"]
    /\ UNCHANGED outsideRw

\* MatchContent: the loop over kf.keywords
MatchKeywords(g) ==
    /\ rw.r[g].pc = "keywords"
    /\ LET i == FirstContained(rw.kf.keywords, ToLower(rw.r[g].arg), 1)
       IN  rw' = [rw EXCEPT !.r[g].result =
                               IF i # 0 THEN [matched |-> TRUE, keyword |-> rw.kf.keywords[i]]
                               ELSE NoMatch,
                            !.r[g].pc = "runlock"]
    /\ UNCHANGED outsideRw

\* the body of GetCategory, GetKeywords or GetBlacklist
ReaderRead(g) ==
    /\ rw.r[g].pc = "read"
    /\ rw' = [rw EXCEPT !.r[g].result =
                           CASE rw.r[g].op = "GetCategory" ->
                                   [s |-> GetCategory(rw.kf, rw.r[g].arg)]
                             [] rw.r[g].op = "GetKeywords" -> [l |-> GetKeywords(rw.kf)]
                             [] rw.r[g].op = "GetBlacklist" -> [l |-> GetBlacklist(rw.kf)],
                        !.r[g].pc = "runlock"]
    /\ UNCHANGED outsideRw

\* defer kf.mutex.RUnlock(), and the method returns
ReaderRUnlock(g) ==
    /\ rw.r[g].pc = "runlock"
    /\ rw' = [rw EXCEPT !.mutex.readers = @ \ {g}, !.r[g] = IdleCall]
    /\ UNCHANGED outsideRw

\* the third goroutine calls a mutating method
WriterCall ==
    /\ rw.w.pc = "idle"
    /\ \E c \in WriteCalls :
          rw' = [rw EXCEPT !.w = [IdleCall EXCEPT !.pc = "lock", !.op = c.op, !.arg = c.arg,
                                                   !.category = c.category]]
    /\ UNCHANGED outsideRw

\* kf.mutex.Lock(), first half: the writer announces itself to the readers
WriterAnnounce ==
    /\ rw.w.pc = "lock"
    /\ rw' = [rw EXCEPT !.mutex.writer = "pending", !.w.pc = "wait"]
    /\ UNCHANGED outsideRw

\* kf.mutex.Lock(), second half: it goes through
WriterLock ==
    /\ rw.w.pc = "wait"
    /\ CanLock(rw.mutex)
    /\ rw' = [rw EXCEPT !.mutex.writer = "held", !.w.pc = "write", !.w.snap = rw.kf]
    /\ UNCHANGED outsideRw

\* the body of AddKeyword, RemoveKeyword, AddToBlacklist or RemoveFromBlacklist
WriterWrite ==
    /\ rw.w.pc = "write"
    /\ rw' = [rw EXCEPT !.kf =
                           CASE rw.w.op = "AddKeyword" ->
                                   AddKeyword(rw.kf, rw.w.arg, rw.w.category)
                             [] rw.w.op = "RemoveKeyword" -> RemoveKeyword(rw.kf, rw.w.arg)
                             [] rw.w.op = "AddToBlacklist" -> AddToBlacklist(rw.kf, rw.w.arg)
                             [] rw.w.op = "RemoveFromBlacklist" ->
                                   RemoveFromBlacklist(rw.kf, rw.w.arg),
                        !.w.pc = "unlock"]
    /\ UNCHANGED outsideRw

\* defer kf.mutex.Unlock(), and the method returns
WriterUnlock ==
    /\ rw.w.pc = "unlock"
    /\ rw' = [rw EXCEPT !.mutex.writer = "none", !.w = IdleCall]
    /\ UNCHANGED outsideRw

RwInit ==
    /\ RwIdle
    /\ IdleOutsideRw

RwNext ==
    \/ \E g \in Readers : ReaderCall(g)
    \/ \E g \in Readers : ReaderRLock(g)
    \/ \E g \in Readers : MatchBlacklist(g)
    \/ \E g \in Readers : MatchKeywords(g)
    \/ \E g \in Readers : ReaderRead(g)
    \/ \E g \in Readers : ReaderRUnlock(g)
    \/ WriterCall
    \/ WriterAnnounce
    \/ WriterLock
    \/ WriterWrite
    \/ WriterUnlock

SpecRW == RwInit /\ [][RwNext]_vars

(***************************************************************************)
(* listen's buffer (package dht).  The reader goroutine makes one buffer,  *)
(* reads every datagram into it and queues packet{buff[:n], raddr}: a      *)
(* slice of that buffer, not a copy.  A queued packet is [n, raddr]; its   *)
(* bytes are the first n bytes of buff at the moment they are read.  In    *)
(* each packet `sent` remembers the bytes it had when it was queued.       *)
(***************************************************************************)
\* datagrams as they come from the network: the sender and the payload
Datagrams == {[raddr |-> 1, data |-> <<1, 2>>], [raddr |-> 2, data |-> <<3, 4>>],
              [raddr |-> 3, data |-> <<5>>]}

\* buff[:n]
SliceOf(buff, n) == [i \in 1..n |-> buff[i]]

\* packet{buff[:n], raddr}: the packet has no bytes of its own
packetOf(buff, n, raddr) == [n |-> n, raddr |-> raddr, sent |-> SliceOf(buff, n)]

\* the bytes of a packet as whoever holds it reads them
DataOf(buff, pkt) == SliceOf(buff, pkt.n)

\* dht.conn.ReadFromUDP(buff): a datagram is there
ListenRead ==
    /\ lb.reader.pc = "read"
    /\ lb.nRead < MaxPackets
    /\ \E d \in Datagrams :
          lb' = [lb EXCEPT !.reader = [pc |-> "copy", datagram |-> d.data,
                                       raddr |-> d.raddr, i |-> 1],
                           !.nRead = @ + 1]
    /\ UNCHANGED outsideLb

\* ReadFromUDP copies the datagram into buff, byte after byte, and returns
ListenCopy ==
    /\ lb.reader.pc = "copy"
    /\ lb' = [lb EXCEPT !.buff[lb.reader.i] = lb.reader.datagram[lb.reader.i],
                        !.reader.i = @ + 1,
                        !.reader.pc = IF lb.reader.i = Len(lb.reader.datagram)
                                      THEN "send" ELSE "copy"]
    /\ UNCHANGED outsideLb

\* dht.packets <- packet{buff[:n], raddr}
ListenSend ==
    /\ lb.reader.pc = "send"
    /\ Len(lb.packets) < PacketJobLimit
    /\ lb' = [lb EXCEPT !.packets = Append(@, packetOf(lb.buff, Len(lb.reader.datagram),
                                                        lb.reader.raddr)),
                        !.reader = NoLb.reader]
    /\ UNCHANGED outsideLb

\* Run's select, case pkt = <-dht.packets: handle(dht, pkt) reads pkt.data
RunHandle ==
    /\ lb.packets # <<>>
    /\ lb' = [lb EXCEPT !.packets = Tail(@),
                        !.handled = [raddr |-> Head(lb.packets).raddr,
                                     sent |-> Head(lb.packets).sent,
                                     data |-> DataOf(lb.buff, Head(lb.packets))]]
    /\ UNCHANGED outsideLb

LbInit ==
    /\ LbIdle
    /\ IdleOutsideLb

LbNext ==
    \/ ListenRead
    \/ ListenCopy
    \/ ListenSend
    \/ RunHandle

SpecListen == LbInit /\ [][LbNext]_vars

(***************************************************************************)
(* The filter under its six mutating methods, called with words that       *)
(* differ only in case and with lists of them, starting from               *)
(* NewKeywordFilter().  fc.before is the filter as the last call found it. *)
(***************************************************************************)
CallWords == {"a", "A", "Ab"}
CallLists == {<<>>, <<"A", "a">>, <<"Ab", "a">>}
CallCategories == {"", "c1", "c2"}

\* the call is recorded with the filter it found
Called(op, keyword, list, category, f) ==
    fc' = [kf |-> f, before |-> fc.kf,
           last |-> [op |-> op, keyword |-> keyword, list |-> list, category |-> category]]

CallAddKeyword ==
    /\ \E k \in CallWords, c \in CallCategories :
          Called("AddKeyword", k, <<>>, c, AddKeyword(fc.kf, k, c))
    /\ UNCHANGED outsideFc

CallAddKeywords ==
    /\ \E l \in CallLists, c \in CallCategories :
          Called("AddKeywords", "", l, c, AddKeywords(fc.kf, l, c))
    /\ UNCHANGED outsideFc

CallRemoveKeyword ==
    /\ \E k \in CallWords : Called("RemoveKeyword", k, <<>>, "", RemoveKeyword(fc.kf, k))
    /\ UNCHANGED outsideFc

CallAddToBlacklist ==
    /\ \E k \in CallWords : Called("AddToBlacklist", k, <<>>, "", AddToBlacklist(fc.kf, k))
    /\ UNCHANGED outsideFc

CallAddBlacklist ==
    /\ \E l \in CallLists : Called("AddBlacklist", "", l, "", AddBlacklist(fc.kf, l))
    /\ UNCHANGED outsideFc

CallRemoveFromBlacklist ==
    /\ \E k \in CallWords :
          Called("RemoveFromBlacklist", k, <<>>, "", RemoveFromBlacklist(fc.kf, k))
    /\ UNCHANGED outsideFc

FcInit ==
    /\ FcIdle
    /\ IdleOutsideFc

FcNext ==
    \/ CallAddKeyword
    \/ CallAddKeywords
    \/ CallRemoveKeyword
    \/ CallAddToBlacklist
    \/ CallAddBlacklist
    \/ CallRemoveFromBlacklist

SpecFilterCalls == FcInit /\ [][FcNext]_vars

(***************************************************************************)
(* The peer statistics of the engine (package dht).  init wraps the user's *)
(* OnGetPeersResponse: the wrapper calls updatePeerStats, which works      *)
(* under peerMutex, and then the user's callback.  Two workers deliver     *)
(* get_peers responses through the wrapper.  ps.delivered, ps.counted and  *)
(* ps.userCalls are history: the deliveries made, those already counted,   *)
(* and the calls the user's callback received.                             *)
(***************************************************************************)
MaxPeerDeliveries == 3

PeerInputs == {[IP |-> <<10, 0, 0, 1>>, Port |-> 80], [IP |-> <<10, 0, 0, 1>>, Port |-> 81]}
PeerInfoHashes == {"h1", "h2"}

\* net.IP.String() of an IPv4 address
IPString(ip) == Itoa(ip[1]) \o "." \o Itoa(ip[2]) \o "." \o Itoa(ip[3]) \o "." \o Itoa(ip[4])

\* fmt.Sprintf("%s:%d", peer.IP.String(), peer.Port)
PeerKey(peer) == IPString(peer.IP) \o ":" \o Itoa(peer.Port)

\* a variant of updatePeerStats that counts every peer as a new one
updatePeerStats_CountEveryPeer(d, infoHash, peer) ==
    [d EXCEPT !.totalPeersFound = @ + 1,
              !.activeInfoHashes =
                  IF infoHash \notin DOMAIN @ THEN MapPut(@, infoHash, 1)
                  ELSE MapPut(@, infoHash, @[infoHash] + 1),
              !.uniquePeerMap = @ \cup {PeerKey(peer)},
              !.uniquePeersCount = @ + 1]

\* updatePeerStats(infoHash, peer), the body between Lock and Unlock
updatePeerStats(d, infoHash, peer) ==
    [d EXCEPT !.totalPeersFound = @ + 1,
              !.activeInfoHashes =
                  IF infoHash \notin DOMAIN @ THEN MapPut(@, infoHash, 1)
                  ELSE MapPut(@, infoHash, @[infoHash] + 1),
              !.uniquePeerMap = @ \cup {PeerKey(peer)},
              !.uniquePeersCount = IF PeerKey(peer) \notin d.uniquePeerMap THEN @ + 1 ELSE @]

\* a worker has a peer of a get_peers response and calls dht.OnGetPeersResponse,
\* the wrapper
WorkerDeliver(w) ==
    /\ ps.worker[w].pc = "idle"
    /\ Len(ps.delivered) < MaxPeerDeliveries
    /\ \E infoHash \in PeerInfoHashes, peer \in PeerInputs :
          ps' = [ps EXCEPT !.delivered = Append(@, [infoHash |-> infoHash, peer |-> peer]),
                           !.worker[w] = [pc |-> "lock", n |-> Len(ps.delivered) + 1,
                                          infoHash |-> infoHash, peer |-> peer]]
    /\ UNCHANGED outsidePs

\* updatePeerStats: dht.peerMutex.Lock()
StatsLock(w) ==
    /\ ps.worker[w].pc = "lock"
    /\ ~ps.peerMutex
    /\ ps' = [ps EXCEPT !.peerMutex = TRUE, !.worker[w].pc = "update"]
    /\ UNCHANGED outsidePs

\* updatePeerStats: the counters and the maps
StatsUpdate(w) ==
    /\ ps.worker[w].pc = "update"
    /\ ps' = [updatePeerStats(ps, ps.worker[w].infoHash, ps.worker[w].peer)
                 EXCEPT !.counted = @ \cup {ps.worker[w].n},
                        !.worker[w].pc = "unlock"]
    /\ UNCHANGED outsidePs

\* updatePeerStats: the deferred dht.peerMutex.Unlock()
StatsUnlock(w) ==
    /\ ps.worker[w].pc = "unlock"
    /\ ps' = [ps EXCEPT !.peerMutex = FALSE, !.worker[w].pc = "call"]
    /\ UNCHANGED outsidePs

\* the wrapper calls originalCallback(infoHash, peer) and returns
CallOriginal(w) ==
    /\ ps.worker[w].pc = "call"
    /\ ps' = [ps EXCEPT !.userCalls =
                           Append(@, [n |-> ps.worker[w].n, infoHash |-> ps.worker[w].infoHash,
                                      peer |-> ps.worker[w].peer,
                                      counted |-> ps.worker[w].n \in ps.counted]),
                        !.worker[w] = IdleWorker]
    /\ UNCHANGED outsidePs

\* Run has gone through init with OnGetPeersResponse set: the wrapper is in place
PsInit ==
    /\ PsIdle
    /\ IdleOutsidePs

PsNext ==
    \/ \E w \in Workers : WorkerDeliver(w)
    \/ \E w \in Workers : StatsLock(w)
    \/ \E w \in Workers : StatsUpdate(w)
    \/ \E w \in Workers : StatsUnlock(w)
    \/ \E w \in Workers : CallOriginal(w)

SpecPeerStats == PsInit /\ [][PsNext]_vars

(***************************************************************************)
(* Claims about the filter, checked under SpecFilter.                      *)
(***************************************************************************)
\* what the filter's contract says of a content s: some keyword occurs in
\* lower(s) and no blacklist word does
SomeKeywordNoBlacklist(f, s) ==
    /\ \E k \in Range(f.keywords) : Contains(ToLower(s), k)
    /\ ~ \E b \in Range(f.blacklist) : Contains(ToLower(s), b)

\* C3, as stated: for every string s, the empty one included, and every filter
\* state, MatchContent(s) is true iff some keyword is a substring of lower(s)
\* and no blacklist entry is.
C3_MatchIffAnyString ==
    lastMatch # None =>
        (lastMatch.result.matched <=> SomeKeywordNoBlacklist(kf, lastMatch.content))

\* C3, amended: the equivalence holds for every non-empty string s, and
\* MatchContent("") is false whatever the filter holds.
C3_MatchIffNonEmpty ==
    lastMatch # None =>
        IF lastMatch.content = ""
        THEN ~lastMatch.result.matched
        ELSE lastMatch.result.matched <=> SomeKeywordNoBlacklist(kf, lastMatch.content)

\* a non-empty content was matched by a filter that holds blacklist words
C3_Witness ==
    /\ lastMatch # None
    /\ lastMatch.content # ""
    /\ lastMatch.result.matched
    /\ Len(kf.blacklist) > 0
    /\ Len(kf.keywords) > 1

\* C4: when MatchContent returns true its keyword is the first keyword, in order
\* of insertion (removed keywords left out), that occurs in the lowercased
\* content; when it returns false the keyword is the empty string.
C4_FirstKeywordInInsertionOrder ==
    lastMatch # None =>
        LET lc == ToLower(lastMatch.content)
            r  == lastMatch.result
        IN  IF r.matched
            THEN \E i \in 1..Len(kwOrder) :
                    /\ kwOrder[i] = r.keyword
                    /\ Contains(lc, kwOrder[i])
                    /\ \A j \in 1..(i - 1) : ~Contains(lc, kwOrder[j])
            ELSE r.keyword = ""

\* a content that holds two keywords was matched after a keyword was removed
\* and another one added
C4_Witness ==
    /\ lastMatch # None
    /\ lastMatch.result.matched
    /\ Len(kwOrder) = 2
    /\ \A i \in 1..2 : Contains(ToLower(lastMatch.content), kwOrder[i])
    /\ kwOrder[1] = "ab"
    /\ lastMatch.result.keyword = "ab"

(***************************************************************************)
(* Claims about the classifier, checked under SpecCat.                     *)
(***************************************************************************)
\* C9: categorizeContent is deterministic: two calls with the same
\* (name, fileCount, size) return the same category.
C9_Deterministic ==
    \A i, j \in 1..Len(catCalls.results) : catCalls.results[i] = catCalls.results[j]

allExtensions ==
    Range(videoExtensions) \cup Range(audioExtensions) \cup Range(imageExtensions)
        \cup Range(docExtensions) \cup Range(archiveExtensions)

allCategoryWords ==
    UNION {Range(categoryKeywords[i].words) : i \in 1..Len(categoryKeywords)}

\* the name has no recognised extension suffix and holds no keyword-table word
NoExtensionNoWord(name) ==
    /\ \A ext \in allExtensions : ~HasSuffix(ToLower(name), ext)
    /\ \A word \in allCategoryWords : ~Contains(ToLower(name), word)

SizeHeuristics(fileCount, size) ==
    IF fileCount > 50 /\ SizeGt(size, GiB(10)) THEN CatCollection
    ELSE IF SizeGt(size, GiB(4)) THEN CatMovie
    ELSE CatUnknown

\* C10, as stated: for such a name the result is Collection if fileCount > 50
\* and size > 10 GiB, otherwise Movie if size > 4 GiB, and otherwise Unknown.
C10_SizeHeuristicsAsStated ==
    NoExtensionNoWord(catCalls.name) =>
        \A i \in 1..Len(catCalls.results) :
            catCalls.results[i] = SizeHeuristics(catCalls.fileCount, catCalls.size)

\* C10, amended: ... otherwise Movie if size > 4 GiB, otherwise Other if
\* fileCount > 10, and otherwise Unknown.
C10_SizeHeuristics ==
    NoExtensionNoWord(catCalls.name) =>
        \A i \in 1..Len(catCalls.results) :
            catCalls.results[i] =
                IF SizeHeuristics(catCalls.fileCount, catCalls.size) = CatUnknown
                   /\ catCalls.fileCount > 10
                THEN CatOther
                ELSE SizeHeuristics(catCalls.fileCount, catCalls.size)

\* a name without extension or keyword was classified with more than 10 files
\* and exactly 4 GiB
C10_Witness ==
    /\ NoExtensionNoWord(catCalls.name)
    /\ catCalls.fileCount > 10
    /\ catCalls.size = GiB(4)
    /\ catCalls.results = <<CatOther>>

(***************************************************************************)
(* Claims about convertMetadataToTorrent, checked under SpecConv.          *)
(***************************************************************************)
RECURSIVE BytesOfHexFrom(_, _)
\* the bytes a string of lowercase hex digits stands for
BytesOfHexFrom(s, i) ==
    IF i + 1 > Len(s) THEN <<>>
    ELSE <<(PosIn(HexDigits, CharAt(s, i)) - 1) * 16 + (PosIn(HexDigits, CharAt(s, i + 1)) - 1)>>
            \o BytesOfHexFrom(s, i + 2)

\* s is made of lowercase hex digits and stands for the given bytes
IsLowerHexOf(s, bytes) ==
    /\ Len(s) = 2 * Len(bytes)
    /\ \A i \in 1..Len(s) : PosIn(HexDigits, CharAt(s, i)) # 0
    /\ BytesOfHexFrom(s, 1) = bytes

\* s has no character that would end or split a query component
IsEscaped(s) ==
    \A i \in 1..Len(s) : ~shouldEscape(CharAt(s, i)) \/ CharAt(s, i) \in {"%", "+"}

\* C11: the magnet link of a record built by convertMetadataToTorrent is
\* "magnet:?xt=urn:btih:" and the record's InfoHash, which is the lowercase
\* hex of the info-hash bytes, then "&tr=" and the escaped announce exactly
\* if the announce is not empty, then "&dn=" and the escaped name exactly if
\* the name is not empty
C11_MagnetLink ==
    conv.torrent # None =>
        LET metadata == conv.metadata
            tr == IF metadata.Announce # "" THEN "&tr=" \o QueryEscape(metadata.Announce) ELSE ""
            dn == IF metadata.Name # "" THEN "&dn=" \o QueryEscape(metadata.Name) ELSE ""
        IN  /\ IsLowerHexOf(conv.torrent.InfoHash, metadata.InfoHash)
            /\ IsEscaped(QueryEscape(metadata.Announce))
            /\ IsEscaped(QueryEscape(metadata.Name))
            /\ conv.torrent.MagnetLink = "magnet:?xt=urn:btih:" \o conv.torrent.InfoHash \o tr \o dn

C11_Witness ==
    /\ conv.torrent # None
    /\ conv.metadata.InfoHash = H1
    /\ conv.metadata.Announce = "udp://t.co:80/a"
    /\ conv.metadata.Name = "x&y=1.mkv"
    /\ conv.torrent.MagnetLink =
          "magnet:?xt=urn:btih:0aff&tr=udp%3A%2F%2Ft.co%3A80%2Fa&dn=x%26y%3D1.mkv"

(***************************************************************************)
(* Claims about the ingest pipeline and the store, checked under Spec.     *)
(***************************************************************************)
\* the store's records for the info-hash h
RecordsOf(h) == {i \in 1..Len(store) : store[i].InfoHash = EncodeToString(h)}

\* the record a store update for h addresses: the first one, 0 if there is none
FirstRecordOf(h) ==
    IF RecordsOf(h) = {} THEN 0
    ELSE CHOOSE i \in RecordsOf(h) : \A j \in RecordsOf(h) : i <= j

\* the response decodes to a dict with no string-valued name or an empty name
NamelessDict(r) ==
    /\ ~r.MetadataInfo.err
    /\ r.MetadataInfo.value.t = "dict"
    /\ LET info == r.MetadataInfo.value.d IN
          \/ "name" \notin DOMAIN info
          \/ info["name"].t # "string"
          \/ info["name"].s = ""

\* the response decodes to a dict with a non-empty string-valued name
NamedDict(r) ==
    /\ ~r.MetadataInfo.err
    /\ r.MetadataInfo.value.t = "dict"
    /\ ~NamelessDict(r)

\* the name of such a response
NameOf(r) == r.MetadataInfo.value.d["name"].s

\* C1: once n >= 1 responses for an info-hash have been processed one after
\* another, each ending in a successful insert or heat increment, with the
\* store empty at the start and no API call for that info-hash, the store
\* has exactly one record for it and the record's heat is n
C1_SequentialDeliveries ==
    \A h \in Hashes :
        (hist[h].clean /\ hist[h].n >= 1) =>
            /\ Cardinality(RecordsOf(h)) = 1
            /\ \A i \in RecordsOf(h) : store[i].Heat = hist[h].n

C1_Witness ==
    /\ hist[H1].clean
    /\ hist[H1].n = 2
    /\ Cardinality(RecordsOf(H1)) = 1
    /\ store[FirstRecordOf(H1)].Heat = 2

\* C2: in every reachable state the store has at most one record per
\* info-hash
C2_AtMostOneRecordPerHash ==
    \A h \in Hashes : Cardinality(RecordsOf(h)) <= 1

\* C2, what does hold: with the unique index on info_hash in place the store
\* has at most one record per info-hash
C2_AtMostOneUnderUniqueIndex ==
    uniqueIndex => \A h \in Hashes : Cardinality(RecordsOf(h)) <= 1

C6_InsertedOnlyIfMatched ==
    [][ /\ (pc = "match" /\ pc' # "match") =>
              /\ store' = store
              /\ IF SomeKeywordNoBlacklist(kf, pm.meta.Name)
                 THEN pc' = "getcat" /\ pm'.matched
                 ELSE pc' = "recv" /\ lastOutcome' = "unmatched"
        /\ (pc \in {"recv", "probe", "getcat"} /\ pc' # pc) => store' = store
        /\ (addPc["crawler"] = "InsertOne" /\ addPc'["crawler"] = "idle" /\ store' # store) =>
              /\ pc = "add"
              /\ pm.matched
              /\ store' = Append(store, pm.torrent)
              /\ pm.torrent.Title = NameOf(resp)
      ]_vars

\* a record has been inserted, and after it an item with a blacklisted name
\* and an info-hash the store does not have has been dropped
C6_Witness ==
    /\ pc = "recv"
    /\ lastOutcome = "unmatched"
    /\ NameOf(resp) = "Teen UHD"
    /\ RecordsOf(resp.InfoHash) = {}
    /\ \E i \in 1..Len(store) : store[i].Source = "DHT" /\ store[i].Title = "UHD"

\* C7: a response that decodes to a dict with no string-valued name, or with
\* an empty name, is dropped in the step that receives it: no store call is
\* made for it, the store is left as it was, and the pipeline is back at the
\* receive; so a store call is only ever made for a named item
C7_NamelessItemsDropped ==
    /\ [](opsLog # <<>> => NamedDict(resp))
    /\ [][(pc = "recv" /\ running /\ nDelivered' # nDelivered /\ NamelessDict(resp')) =>
              /\ pc' = "recv"
              /\ lastOutcome' \in {"convert_error", "empty_name"}
              /\ opsLog' = <<>>
              /\ store' = store
              /\ addPc' = addPc
         ]_vars

\* two nameless items have been dropped one after the other
C7_Witness ==
    /\ pc = "recv"
    /\ hist[H2].n = 2
    /\ lastOutcome = "empty_name"
    /\ NamelessDict(resp)
    /\ opsLog = <<>>

\* C8: the record handed to the insert has the category that was mapped to
\* the matched keyword when MatchContent returned it, and the classifier's
\* result only when the keyword had no mapped category then
C8_CategoryOfMatchTime ==
    pc = "add" =>
        IF pm.mappedAtMatch # ""
        THEN pm.torrent.Category = pm.mappedAtMatch
        ELSE \E rangeStart \in RangeStarts :
                pm.torrent.Category = categorizeContent(pm.meta.Name, Len(pm.meta.Files),
                                                        pm.meta.Length, rangeStart)

\* the dict a response decodes to
InfoOf(r) == r.MetadataInfo.value.d

\* the crawler's AddTorrent call inserts a record
CrawlerInserts ==
    /\ addPc["crawler"] = "InsertOne"
    /\ addPc'["crawler"] = "idle"
    /\ store' # store

\* C12: a record the pipeline inserts has heat 1 and the source tag DHT; its
\* upload date is the creation date of the item's metadata when the metadata
\* has one and the current time otherwise, and is never the zero time
C12_InsertedRecordFields ==
    [][CrawlerInserts =>
          LET torrent == store'[Len(store')] IN
          /\ torrent.Heat = 1
          /\ torrent.Source = "DHT"
          /\ ~IsZero(torrent.UploadDate)
          /\ IF "creation date" \in DOMAIN InfoOf(resp)
             THEN torrent.UploadDate = TimeUnix(InfoOf(resp)["creation date"].n)
             ELSE torrent.UploadDate \in ProcessNowInputs
      ]_vars

\* what the code does: the creation date counts only when it was decoded as
\* an int64 (SpecConv has such records), and a creation date decoded as an
\* int gives the current time
C12_CreationDateOnlyAsInt64 ==
    [][CrawlerInserts =>
          LET torrent == store'[Len(store')] IN
          /\ torrent.Heat = 1
          /\ torrent.Source = "DHT"
          /\ ~IsZero(torrent.UploadDate)
          /\ IF IsA(InfoOf(resp), "creation date", "int64")
             THEN torrent.UploadDate = TimeUnix(InfoOf(resp)["creation date"].n)
             ELSE torrent.UploadDate \in ProcessNowInputs
      ]_vars

\* the conversion on its own: heat 1, source DHT, and the creation date the
\* metadata carries unless that is the zero time, and then the current time
C12_ConvertedUploadDate ==
    conv.torrent # None =>
        /\ conv.torrent.Heat = 1
        /\ conv.torrent.Source = "DHT"
        /\ ~IsZero(conv.torrent.UploadDate)
        /\ conv.torrent.UploadDate =
              IF IsZero(conv.metadata.Creation) THEN conv.now ELSE conv.metadata.Creation

\* a record was inserted for metadata whose creation date is an int, and it
\* carries the current time
C12_IntCreationDateIgnored ==
    /\ lastOutcome = "inserted"
    /\ IsA(InfoOf(resp), "creation date", "int")
    /\ \E i \in 1..Len(store) : store[i].Source = "DHT" /\ store[i].UploadDate \in ProcessNowInputs

\* the crawler's AddTorrent call returns an error
CrawlerAddFails ==
    /\ addPc["crawler"] # "idle"
    /\ addPc'["crawler"] = "idle"
    /\ lastOutcome' = "add_error"

\* C13: when the existence probe or the crawler's AddTorrent returns an
\* error, the step leaves the store as it was, makes no further store call
\* for the item and takes the still running pipeline back to the receive of
\* the next response; a failed heat increment does the same
C13_StoreErrorsDropTheItem ==
    [][ /\ (pc = "probe" /\ lastOutcome' = "probe_error") =>
              /\ store' = store
              /\ opsLog' = <<"InfoHashExists">>
              /\ pc' = "recv" /\ running' = running /\ addPc' = addPc
        /\ CrawlerAddFails =>
              /\ pc = "add"
              /\ store' = store
              /\ opsLog' = opsLog
              /\ pc' = "recv" /\ running' = running
        /\ (pc = "increment" /\ lastOutcome' = "increment_error") =>
              /\ store' = store
              /\ pc' = "recv" /\ running' = running /\ addPc' = addPc
        /\ (pc \in {"probe", "increment", "add"} /\ pc' # pc) =>
              pc' \in {"recv", "match", "increment"}
      ]_vars

\* the insert of the second item has failed with one record in the store,
\* and the pipeline is at its receive
C13_Witness ==
    /\ pc = "recv"
    /\ running
    /\ lastOutcome = "add_error"
    /\ nDelivered = 2
    /\ Len(store) = 1
    /\ opsLog = <<"InfoHashExists", "MatchContent", "GetCategory", "AddTorrent">>

(***************************************************************************)
(* The crawler process under fair scheduling: a goroutine that can take a  *)
(* step takes it.  When the Wire delivers a response and when Stop is      *)
(* called is up to the network and the operator, so neither is fair.       *)
(***************************************************************************)
SpecStop ==
    /\ Init
    /\ [][Next]_vars
    /\ WF_vars(Probe)
    /\ WF_vars(Increment)
    /\ WF_vars(Match)
    /\ WF_vars(ResolveCategory)
    /\ WF_vars(AddTorrentFindOne("crawler"))
    /\ WF_vars(AddTorrentUpdateOne("crawler"))
    /\ WF_vars(AddTorrentInsertOne("crawler"))
    /\ WF_vars(StopReturn)

\* C19: Crawler.Stop, once it is waiting for the pipeline, eventually
\* returns, without counting on a further response from the Wire
C19_StopReturns == (stopPc = "wait") ~> (stopPc = "done")

\* Stop returns when a response does arrive after the call
C19_StopReturnsAfterAResponse ==
    /\ stopPc = "done"
    /\ pc = "exited"
    /\ ~running

(***************************************************************************)
(* Claims about the DHT engine, checked under SpecDHT and SpecDHTFair.     *)
(***************************************************************************)
\* the client's GetPeers call returns
GetPeersReturns == lastGetPeers' # lastGetPeers

\* C14, as stated: GetPeers on an engine with no OnGetPeersResponse callback
\* fails with ErrOnGetPeersResponseNotSet and sends no query, before Run,
\* while running and after Stop
C14_ConfigErrorWhateverReadiness ==
    (lastGetPeers # None /\ ~dht.OnGetPeersResponse) =>
        /\ lastGetPeers.result.err = ErrOnGetPeersResponseNotSet
        /\ lastGetPeers.result.queries = <<>>

\* C14, amended: GetPeers on an engine with no OnGetPeersResponse callback
\* sends no query and fails, with ErrNotReady as long as Run has not set
\* Ready and with ErrOnGetPeersResponseNotSet from then on, also after Stop
C14_ConfigErrorOnceReady ==
    [][(GetPeersReturns /\ ~dht.OnGetPeersResponse) =>
          /\ lastGetPeers'.result.queries = <<>>
          /\ lastGetPeers'.result.err =
                IF dht.Ready THEN ErrOnGetPeersResponseNotSet ELSE ErrNotReady
      ]_vars

\* GetPeers has failed with the configuration error on an engine that has
\* nodes in its table and was stopped before the call
C14_Witness ==
    /\ ~dht.OnGetPeersResponse
    /\ lastGetPeers # None
    /\ lastGetPeers.stopped
    /\ lastGetPeers.result.err = ErrOnGetPeersResponseNotSet
    /\ dht.routingTable # {}
    /\ task.stop = "done"

\* C15: a GetPeers call that returns no error has sent its queries only to
\* the K nodes of the routing table nearest to the info-hash, so at most K
C15_QueriesOnlyKClosest ==
    [][(GetPeersReturns /\ lastGetPeers'.result.err = ErrNil) =>
          /\ Len(lastGetPeers'.result.queries) <= K
          /\ Range(lastGetPeers'.result.queries) \subseteq
                Range(GetNeighbors(dht.routingTable, lastGetPeers'.infoHash.target, K))
      ]_vars

\* what the code does: the queries go to every node of the table
C15_AllNodesQueried ==
    [][(GetPeersReturns /\ lastGetPeers'.result.err = ErrNil) =>
          Range(lastGetPeers'.result.queries) = dht.routingTable
      ]_vars

C17_ReaderNeverBlocksOnEnqueue ==
    ~(task.reader = "send" /\ Len(dht.packets) = PacketJobLimit)

\* C18: once Stop has closed the closing channel, the UDP reader and the
\* stats monitor, if Run started them, exit in the end
C18_TasksExitAfterStop ==
    dht.closing ~> (task.reader \in {"off", "exited"} /\ task.stats \in {"off", "exited"})

\* the stats monitor does exit, and so does a reader that is not at the send
C18_StatsMonitorExits ==
    dht.closing ~> (task.stats \in {"off", "exited"})

\* C20: no failure of the NAT handling ends the process
C20_NatFailureNeverEndsTheProcess == host.process # "exited"

\* every NAT failure other than a missing default gateway leaves the process
\* running: Run goes on to bind the socket
C20_OnlyMissingGatewayExits ==
    [][(task.run = "new" /\ host'.nat # None /\ host.nat = None
            /\ (host'.nat.gateway \/ host'.nat.upnp \/ ~host'.nat.localIP)) =>
          host'.process # "exited"
      ]_vars

(***************************************************************************)
(* Claims about the NAT helper, checked under SpecNAT.                     *)
(***************************************************************************)
\* C21: after Shutdown a delete has been sent for every mapping that Setup
\* or Refresh made on the gateway
C21_EveryMappingDeleted ==
    natTask.pc = "down" => router.created \subseteq router.deleted

\* what the code does: the deletes go by the one method useUPnP names, so
\* only the mappings made by that method are deleted
C21_DeletedByTheSelectedMethod ==
    natTask.pc = "down" =>
        \A key \in router.created :
            key[1] = (IF nat.useUPnP THEN "upnp" ELSE "pmp") => key \in router.deleted

\* a UPnP mapping was made before a later one failed, Setup went on with
\* NAT-PMP, and Shutdown has sent no delete for the UPnP mapping
C21_UPnPMappingLeftBehind ==
    /\ natTask.pc = "down"
    /\ ~nat.useUPnP /\ nat.upnpClient /\ nat.pmpClient
    /\ \E key \in router.created \ router.deleted : key[1] = "upnp"

\* C22: Refresh never calls a UPnP or NAT-PMP client that was not created,
\* so the refresh tick after a failed Setup does not end the process
C22_RefreshNeverUsesNilClient == natTask.process # "panicked"

\* what the code does: after a Setup that made the client of the method it
\* chose or tried last, Refresh goes through that client
C22_RefreshWithAClient ==
    [][(natTask.pc = "ready" /\ natTask'.process = "panicked") =>
          ~nat.useUPnP /\ ~nat.pmpClient /\ natTask.setup = "error"]_vars

(***************************************************************************)
(* Claims about the bencode encoder, checked under SpecEnc.                *)
(***************************************************************************)
\* the bencoding of each dictionary the client encodes, keys in ascending
\* raw-byte order at every level
CanonicalEncoding(info) ==
    CASE info = InfoBA -> "d1:a1:x1:bi2ee"
      [] info = InfoCase -> "d1:Bi1e1:ai-7e2:ab0:e"
      [] info = InfoFiles -> "d5:filesld6:lengthi0e4:pathl1:aeee6:lengthi12e4:name3:UHDe"
      [] info = InfoNested -> "d0:1:e1:zd2:10i3e1:9i4e1:x1:k1:yi10eee"
      [] info = InfoEmpty -> "de"
      [] info = InfoBytes -> "d1:Zi1e1:_i2e1:ai3ee"

\* C23: whatever order the maps are ranged over in, writeBencodedDict emits
\* the keys in ascending raw-byte order at every nesting level, so the bytes
\* and calculateInfoHash are the same for every call on the same dictionary;
\* the dictionary {"b": 2, "a": "x"} encodes to d1:a1:x1:bi2ee.
C23_KeysInByteOrder ==
    /\ \A i \in 1..Len(enc.calls) :
          enc.info # InfoFloat =>
             /\ ~enc.calls[i].err
             /\ enc.calls[i].out = CanonicalEncoding(enc.info)
             /\ ~enc.calls[i].hashErr
             /\ enc.calls[i].hash = Sha1Hex(CanonicalEncoding(enc.info))
    /\ \A i, j \in 1..Len(enc.calls) :
          /\ enc.calls[i].out = enc.calls[j].out
          /\ enc.calls[i].hash = enc.calls[j].hash

\* {"b": 2, "a": "x"} was encoded twice, the map ranged over in two different
\* orders, "b" first in one of them, and came out as d1:a1:x1:bi2ee
C23_Witness ==
    /\ enc.info = InfoBA
    /\ Len(enc.calls) = 2
    /\ enc.calls[1].keys = <<"b", "a">>
    /\ enc.calls[2].keys = <<"a", "b">>
    /\ enc.calls[1].out = "d1:a1:x1:bi2ee"
    /\ enc.calls[2].out = "d1:a1:x1:bi2ee"

(***************************************************************************)
(* Claims about DHT.id, checked under SpecId.                              *)
(***************************************************************************)
\* C24: in crawl mode id(target) of a 20-byte target is 20 bytes long, its
\* first 15 bytes are the target's and its last 5 the node ID's own; in
\* standard mode, and for the empty target, id returns the node ID unchanged.
C24_IdMixesTargetAndOwn ==
    \A i \in 1..Len(idc.calls) :
       LET target == idc.calls[i].target
           result == idc.calls[i].result
       IN  /\ (idc.Mode = CrawlMode /\ Len(target) = 20) =>
                /\ ~result.panic
                /\ Len(result.s) = 20
                /\ \A b \in 1..15 : CharAt(result.s, b) = CharAt(target, b)
                /\ \A b \in 16..20 : CharAt(result.s, b) = CharAt(idc.node, b)
           /\ (idc.Mode = StandardMode \/ target = "") =>
                /\ ~result.panic
                /\ result.s = idc.node

\* a crawl-mode engine was asked the id of a 20-byte target that differs from
\* its node ID in the first 15 bytes and in the last 5, and then of the empty
\* target
C24_Witness ==
    /\ idc.Mode = CrawlMode
    /\ idc.node = "ABCDEFGHIJKLMNOPQRST"
    /\ Len(idc.calls) = 2
    /\ idc.calls[1].target = "abcdefghijklmnopqrst"
    /\ idc.calls[1].result.s = "abcdefghijklmnoPQRST"
    /\ idc.calls[2].target = ""
    /\ idc.calls[2].result.s = "ABCDEFGHIJKLMNOPQRST"

\* in crawl mode a non-empty target shorter than 15 bytes makes id panic
C24_ShortTargetPanics ==
    \A i \in 1..Len(idc.calls) :
       idc.calls[i].result.panic <=>
          (idc.Mode = CrawlMode /\ idc.calls[i].target = "abc")

(***************************************************************************)
(* Claims about the k-bucket tick, checked under SpecKb.                   *)
(***************************************************************************)
\* C25 as stated: on every tick, an empty routing table is re-joined and not
\* refreshed, and a non-empty routing table has Fresh() invoked.
C25_NonEmptyTableIsRefreshed ==
    kb.lastTick # None =>
       /\ kb.lastTick.nodes = 0 =>
             /\ kb.lastTick.joined
             /\ kb.lastTick.queries = kb.lastTick.resolved
             /\ ~kb.lastTick.fresh
       /\ kb.lastTick.nodes > 0 => kb.lastTick.fresh

\* C25: on every tick, an empty routing table is re-joined (one find_node to
\* each prime node that resolves) and not refreshed; a non-empty routing table
\* has Fresh() invoked when no transaction is pending, and is left alone when
\* one is; a non-empty table is never re-joined.
C25_RefreshedWhenNoTransactionPends ==
    kb.lastTick # None =>
       /\ kb.lastTick.nodes = 0 =>
             /\ kb.lastTick.joined
             /\ kb.lastTick.queries = kb.lastTick.resolved
             /\ ~kb.lastTick.fresh
       /\ kb.lastTick.nodes > 0 =>
             /\ ~kb.lastTick.joined
             /\ kb.lastTick.queries = {}
             /\ kb.lastTick.fresh <=> kb.lastTick.transactions = 0

\* the tick found nodes in the table and a pending transaction, and did not
\* call Fresh
C25_Witness ==
    /\ kb.lastTick # None
    /\ kb.lastTick.nodes > 0
    /\ kb.lastTick.transactions > 0
    /\ ~kb.lastTick.fresh

\* the tick found nodes in the table and no transaction, and called Fresh
C25_FreshInvoked ==
    /\ kb.lastTick # None
    /\ kb.lastTick.nodes > 0
    /\ kb.lastTick.transactions = 0
    /\ kb.lastTick.fresh

\* the tick found the table empty and re-joined through one of two prime nodes
C25_Rejoined ==
    /\ kb.lastTick # None
    /\ kb.lastTick.nodes = 0
    /\ Cardinality(kb.lastTick.queries) = 1

(***************************************************************************)
(* Claims about the filter's locking, checked under SpecRW.                *)
(***************************************************************************)
\* the readers that are inside their critical section
InsideRead == {g \in Readers : rw.r[g].pc \in {"blacklist", "keywords", "read", "runlock"}}

\* C26: while a reading method is inside its critical section the filter is
\* the one it found at its RLock: no mutating method is inside its own, so
\* each MatchContent answers from the blacklist and the keywords of that one
\* filter state; the readers do not exclude each other.
C26_ReadersSeeOneFilterState ==
    /\ rw.mutex.readers = InsideRead
    /\ \A g \in InsideRead :
          /\ rw.r[g].snap = rw.kf
          /\ rw.w.pc \notin {"write", "unlock"}
          /\ (rw.r[g].pc = "runlock" /\ rw.r[g].op = "MatchContent") =>
                rw.r[g].result = MatchContent(rw.r[g].snap, rw.r[g].arg)
    /\ rw.w.pc \in {"write", "unlock"} => rw.mutex.writer = "held"

\* two readers are inside at the same time, one of them a MatchContent that
\* has gone through a blacklist and keywords a writer had filled, with a
\* writer waiting for both
C26_Witness ==
    /\ InsideRead = Readers
    /\ rw.kf.blacklist # <<>>
    /\ rw.kf.keywords # <<>>
    /\ rw.r["r1"].op = "MatchContent"
    /\ rw.r["r1"].pc = "runlock"
    /\ rw.w.pc = "wait"

(***************************************************************************)
(* Claims about the reader's buffer, checked under SpecListen.             *)
(***************************************************************************)
\* C27: the bytes of a queued packet are the bytes it was queued with, as
\* long as it waits in the queue and when the Run loop hands it to the
\* handler: no later ReadFromUDP overwrites them.
C27_QueuedBytesUnchanged ==
    /\ \A i \in 1..Len(lb.packets) : DataOf(lb.buff, lb.packets[i]) = lb.packets[i].sent
    /\ lb.handled # None => lb.handled.data = lb.handled.sent

\* the handler was given, for the packet of sender 1, the bytes of a datagram
\* that arrived later
C27_HandlerSeesLaterDatagram ==
    /\ lb.handled # None
    /\ lb.handled.raddr = 1
    /\ lb.handled.sent = <<1, 2>>
    /\ lb.handled.data = <<3, 4>>

\* the sender and the length of a packet are its own: the handler is given
\* the sender the packet was queued with, and as many bytes
C27_SenderAndLengthKept ==
    lb.handled # None =>
       /\ Len(lb.handled.data) = Len(lb.handled.sent)
       /\ \E d \in Datagrams : d.raddr = lb.handled.raddr /\ d.data = lb.handled.sent

(***************************************************************************)
(* Claims about the filter's lists, checked under SpecFilterCalls.         *)
(***************************************************************************)
\* list holds lowercased strings only, none of them twice
LowercasedNoDuplicates(list) ==
    /\ \A i \in 1..Len(list) : ToLower(list[i]) = list[i]
    /\ \A i, j \in 1..Len(list) : list[i] = list[j] => i = j

\* C28: after any sequence of AddKeyword, AddKeywords, RemoveKeyword,
\* AddToBlacklist, AddBlacklist and RemoveFromBlacklist calls, the keyword
\* list and the blacklist hold only lowercased strings, none twice, and every
\* key of the category map is a keyword of the list.
C28_ListsLowercasedAndDistinct ==
    /\ LowercasedNoDuplicates(fc.kf.keywords)
    /\ LowercasedNoDuplicates(fc.kf.blacklist)
    /\ \A k \in DOMAIN fc.kf.categoryMap : \E i \in 1..Len(fc.kf.keywords) : fc.kf.keywords[i] = k

\* a keyword with a category was removed while another one stays, after words
\* were added in both cases to both lists
C28_Witness ==
    /\ fc.last # None
    /\ fc.last.op = "RemoveKeyword"
    /\ fc.last.keyword = "A"
    /\ "a" \in DOMAIN fc.before.categoryMap
    /\ fc.kf.keywords = <<"ab">>
    /\ DOMAIN fc.kf.categoryMap = {"ab"}
    /\ fc.kf.blacklist = <<"ab", "a">>

\* C29: AddKeyword(k, c) for a keyword that is in the list already, compared
\* after lowercasing, changes nothing: the keyword list, its order and the
\* category mapped to k stay as they were, whatever c is.
C29_AddExistingKeywordChangesNothing ==
    (/\ fc.last # None
     /\ fc.last.op = "AddKeyword"
     /\ \E i \in 1..Len(fc.before.keywords) :
           fc.before.keywords[i] = ToLower(fc.last.keyword))
    => /\ fc.kf.keywords = fc.before.keywords
       /\ fc.kf.categoryMap = fc.before.categoryMap
       /\ fc.kf.blacklist = fc.before.blacklist

\* AddKeyword("A", "c2") was called on a filter that had "a", second in the
\* list and mapped to "c1"
C29_Witness ==
    /\ fc.last # None
    /\ fc.last.op = "AddKeyword"
    /\ fc.last.keyword = "A"
    /\ fc.last.category = "c2"
    /\ fc.before.keywords = <<"ab", "a">>
    /\ "a" \in DOMAIN fc.before.categoryMap
    /\ fc.before.categoryMap["a"] = "c1"
    /\ fc.kf = fc.before

\* AddKeyword("a", "c1") was called on a filter that had "a" without a
\* category, and "a" still has none
C29_WitnessNoCategory ==
    /\ fc.last # None
    /\ fc.last.op = "AddKeyword"
    /\ fc.last.keyword = "a"
    /\ fc.last.category = "c1"
    /\ fc.before.keywords = <<"a">>
    /\ fc.kf.keywords = <<"a">>
    /\ DOMAIN fc.kf.categoryMap = {}

(***************************************************************************)
(* Claims about the peer statistics, checked under SpecPeerStats.          *)
(***************************************************************************)
RECURSIVE SumOver(_, _)
\* the sum of f[k] over the keys in keys
SumOver(f, keys) ==
    IF keys = {} THEN 0
    ELSE LET k == CHOOSE x \in keys : TRUE IN f[k] + SumOver(f, keys \ {k})

NoDeliveryInProgress == \A w \in Workers : ps.worker[w].pc = "idle"

\* C30: once the deliveries made have returned, totalPeersFound is their
\* number and the sum of the counts in activeInfoHashes, uniquePeersCount is
\* the number of distinct ip:port pairs delivered and at most
\* totalPeersFound, and the user's callback has been called once for each
\* delivery; every call of the user's callback comes after its delivery was
\* counted.
C30_CountersMatchDeliveries ==
    /\ NoDeliveryInProgress =>
          /\ ps.totalPeersFound = Len(ps.delivered)
          /\ ps.totalPeersFound = SumOver(ps.activeInfoHashes, DOMAIN ps.activeInfoHashes)
          /\ \A h \in PeerInfoHashes :
                Cardinality({i \in 1..Len(ps.delivered) : ps.delivered[i].infoHash = h})
                   = IF h \in DOMAIN ps.activeInfoHashes THEN ps.activeInfoHashes[h] ELSE 0
          /\ ps.uniquePeersCount =
                Cardinality({<<ps.delivered[i].peer.IP, ps.delivered[i].peer.Port>> :
                                i \in 1..Len(ps.delivered)})
          /\ ps.uniquePeersCount <= ps.totalPeersFound
          /\ \A n \in 1..Len(ps.delivered) :
                Cardinality({i \in 1..Len(ps.userCalls) : ps.userCalls[i].n = n}) = 1
    /\ \A i \in 1..Len(ps.userCalls) :
          /\ ps.userCalls[i].counted
          /\ ps.userCalls[i].infoHash = ps.delivered[ps.userCalls[i].n].infoHash
          /\ ps.userCalls[i].peer = ps.delivered[ps.userCalls[i].n].peer

\* three deliveries have returned, two of them of the same peer, for two
\* info-hashes, and the user's callback received them in another order than
\* they were made
C30_Witness ==
    /\ NoDeliveryInProgress
    /\ Len(ps.delivered) = 3
    /\ ps.totalPeersFound = 3
    /\ ps.uniquePeersCount = 2
    /\ DOMAIN ps.activeInfoHashes = PeerInfoHashes
    /\ ps.uniquePeerMap = {"10.0.0.1:80", "10.0.0.1:81"}
    /\ ps.userCalls[1].n = 2

=============================================================================
